---- MODULE Spec2Model ----
(***************************************************************************)
(* A model of pachydurable: the rediserde cache-store wrappers, the Borg   *)
(* construction coordinator (borg), the cache-aside lookup                 *)
(* (cached_or_cache and its forcing variants) and the unique-key resolver  *)
(* (get_string_id).  Every async function is modelled one await point per *)
(* step, so that a failure can be injected at each `?` and other tasks and *)
(* the environment can interleave where the runtime lets them.             *)
(***************************************************************************)
EXTENDS Integers, Sequences, FiniteSets, TLC

(***************************************************************************)
(* Bounds of the model.                                                    *)
(***************************************************************************)
\* the value a Borg implementor gives redis_pk_max_ct() (default 1_000_000)
MaxCt == 1
\* the value an implementor gives seconds_expiry() / redis_expiry_r()
ExpirySeconds == 1
\* number of tasks that call borg
NumBorgTasks == 2
\* tasks that call get_string_id
NumResTasks == 2
\* rows another client of the table deletes
MaxDeletes == 1
\* identifiers other clients of the table may take for their own inserts
MaxForeignId == 1
\* characters in a phrase given to sanitize_tsquery
MaxPhraseLen == 4

VARIABLES
    cache,      \* Redis string keys: key -> Nil or [payload, ttl]
    sets,       \* Redis set keys: key -> set of member strings
    rsrc,       \* the durable data redis_value reads
    btask,      \* one record per task calling borg
    firstSight, \* per member: on_pk_sadd runs since it was added (0: not in a window)
    db,         \* the table a Cacheable type is read from: params -> rows
    ctask,      \* the caller of cached_or_cache, get_one, get_by_pk
    last,       \* what the last lookup left for its params, while nothing disturbs it
    got,        \* the last rediserde::get a client of the store made
    lastWrite,  \* per key: the last del or set, while it is in force
    table,      \* the table get_string_id resolves names in: name -> <<id>> or <<>>
    seq,        \* the next identifier the table hands out
    returning,  \* whether the caller's insert statement returns the new row
    rtask,      \* one record per task calling get_string_id
    worker,     \* the runtime thread each of those tasks is polled on
    deletes,    \* rows deleted from the table so far
    san,        \* a call of sanitize_tsquery: its phrase, flag and result
    wtask,      \* a call of warm_the_cache: its place in the loops, its last recache
    hitsdb,     \* what exec_autocomp finds for each phrase
    atask,      \* the caller of cached_autocomp, recache
    alast,      \* the list the last lookup or recache stored, while it is in force
    wcount,     \* a call of warm_the_cache: its place in the loops, its calls so far
    hist        \* of borg: the last construction that failed past the membership
                \* check, and the members the last clear of the dedup set removed

borgVars == <<sets, rsrc, btask, firstSight>>
cocVars == <<db, ctask, last>>
storeVars == <<got, lastWrite>>
resVars == <<table, seq, returning, rtask, worker, deletes>>
autoVars == <<hitsdb, atask, alast>>
vars == <<cache, sets, rsrc, btask, firstSight, db, ctask, last, got, lastWrite,
          table, seq, returning, rtask, worker, deletes, san, wtask,
          hitsdb, atask, alast, wcount, hist>>

\* what the steps of borg leave alone
borgOthers == <<cocVars, storeVars, resVars, san, wtask, autoVars, wcount>>
\* the same, for the steps that add nothing to the history
notBorg == <<borgOthers, hist>>
\* what the steps of the lookups leave alone
notCoc == <<borgVars, storeVars, resVars, san, wtask, autoVars, wcount, hist>>
\* what the clients of rediserde leave alone
notStore == <<borgVars, cocVars, resVars, san, wtask, autoVars, wcount, hist>>
\* what the steps of get_string_id leave alone
notRes == <<cache, borgVars, cocVars, storeVars, san, wtask, autoVars, wcount, hist>>
\* what sanitize_tsquery leaves alone
notSan == <<cache, borgVars, cocVars, storeVars, resVars, wtask, autoVars, wcount, hist>>
\* what warm_the_cache leaves alone
notWarm == <<borgVars, cocVars, storeVars, resVars, san, autoVars, wcount, hist>>
\* what cached_autocomp and recache leave alone
notAuto == <<borgVars, cocVars, storeVars, resVars, san, wtask, wcount, hist>>
\* what the loops of warm_the_cache leave alone
notCount == <<cache, borgVars, cocVars, storeVars, resVars, san, wtask, autoVars, hist>>

(***************************************************************************)
(* Values.                                                                 *)
(***************************************************************************)
Nil == [nil |-> TRUE]

Ok(v) == [kind |-> "Ok", val |-> v]
Err(e) == [kind |-> "Err", err |-> e]
None == [some |-> FALSE]
Some(v) == [some |-> TRUE, val |-> v]
NoResult == [kind |-> "Pending"]

\* s contains sub, as str::contains
Contains(s, sub) ==
    \E i \in 1..(Len(s) - Len(sub) + 1) : SubSeq(s, i, i + Len(sub) - 1) = sub

(***************************************************************************)
(* serde_json, as rediserde uses it: to_string writes a JSON text,         *)
(* from_str parses one and fails on a text that is not one.                *)
(***************************************************************************)
to_string(v) == "{" \o v \o "}"

IsJson(jz) ==
    /\ Len(jz) >= 2
    /\ SubSeq(jz, 1, 1) = "{"
    /\ SubSeq(jz, Len(jz), Len(jz)) = "}"

from_str(jz) ==
    IF IsJson(jz) THEN Ok(SubSeq(jz, 2, Len(jz) - 1)) ELSE Err("SerdeJSON")

\* a payload some other writer left under a key, which does not parse
Malformed == "{oops"

(***************************************************************************)
(* The Redis commands rediserde issues, on the value held under one key.   *)
(***************************************************************************)
\* the errors pool.get() and a command can end with (err.rs 86-95, 54-58)
RedisErrors == {"MobcRedis", "Redis"}

\* GET converted to a String: redis-rs refuses a nil reply with a type error
NilErrorText == "Response was of incompatible type: (response was nil)"

redis_get(entry) ==
    IF entry = Nil THEN [ok |-> FALSE, text |-> NilErrorText]
    ELSE [ok |-> TRUE, val |-> entry.payload]

redis_set(jz) == [payload |-> jz, expires |-> FALSE, ttl |-> 0]

redis_set_ex(jz, seconds) == [payload |-> jz, expires |-> TRUE, ttl |-> seconds]

(***************************************************************************)
(* rediserde: the successful path of each wrapper (a failure of pool.get() *)
(* or of the command is a separate disjunct of the calling step).          *)
(***************************************************************************)
\* mutant: every read is a miss
rediserde_get_miss(entry) == Ok(None)

\* mutant: the nil reply is looked for under another wording
rediserde_get_nil_error(entry) ==
    LET reply == redis_get(entry) IN
    IF reply.ok
    THEN LET t == from_str(reply.val) IN
         IF t.kind = "Ok" THEN Ok(Some(t.val)) ELSE t
    ELSE IF Contains(reply.text, "nil response") THEN Ok(None)
         ELSE Err("Redis")

rediserde_get(entry) ==
    LET reply == redis_get(entry) IN
    IF reply.ok
    THEN LET t == from_str(reply.val) IN
         IF t.kind = "Ok" THEN Ok(Some(t.val)) ELSE t
    ELSE IF Contains(reply.text, "response was nil") THEN Ok(None)
         ELSE Err("Redis")

rediserde_set(value) == redis_set(to_string(value))

rediserde_set_ex(value, seconds_expiry) == redis_set_ex(to_string(value), seconds_expiry)

rediserde_del == Nil

sadd_str(members, val) == members \cup {val}

\* mutant: SISMEMBER that never finds the member
sismember_str_never(members, val) == FALSE

sismember_str(members, val) == val \in members

scard(members) == Cardinality(members)

\* DEL of a set key: the set is gone, which Redis reads as the empty set
del_set == {}

\* one second passes in Redis: entries with an expiry count down and vanish
Elapse(entry) ==
    IF entry = Nil THEN entry
    ELSE IF ~entry.expires THEN entry
    ELSE IF entry.ttl = 1 THEN Nil
    ELSE [entry EXCEPT !.ttl = entry.ttl - 1]

(***************************************************************************)
(* Borg: the trait's methods, for one implementing type.                   *)
(***************************************************************************)
Bs == {"a", "b"}
\* enough owned inputs for MaxCt + 2 distinct identities
Os == 1..((MaxCt + 3) \div 2)
RVals == {"r1", "r2"}
BorgTasks == 1..NumBorgTasks

redis_prefix == "sub"

redis_suffix_r(b, o) == b

redis_expiry_r == ExpirySeconds

redis_pk_max_ct == MaxCt

\* the R value the durable store yields for (b, o) now
redis_value(b, o) == b \o "_" \o rsrc

generate(b, o, r) == [o |-> o, r |-> r]

instantiate(b, g) == [b |-> b, g |-> g]

redis_pk_member(inst) == inst.b \o "_" \o ToString(inst.g.o)

key_r(prefix, suffix) == "borg_r_" \o prefix \o "_" \o suffix

key_set_pks(prefix) == "borg_pks_" \o prefix

BorgKeys == {key_r(redis_prefix, redis_suffix_r(b, o)) : b \in Bs, o \in Os}
BorgSetKeys == {key_set_pks(redis_prefix)}
Members == {redis_pk_member(instantiate(b, generate(b, o, r))) : b \in Bs, o \in Os, r \in RVals}

\* mutant: the set is cleared one member too late
PkSetTooLarge_late(card) == redis_pk_max_ct + 1 < card

\* mutant: the set is never cleared
PkSetTooLarge_never(card) == FALSE

\* borg.rs 143: the set is cleared when it holds more than redis_pk_max_ct members
PkSetTooLarge(card) == redis_pk_max_ct < card

IdleTask == [pc |-> "idle"]

\* every R value is kept under the key of the suffix "a"
BKeyR_shared(t) == key_r(redis_prefix, "a")

BKeyR(t) == key_r(redis_prefix, redis_suffix_r(btask[t].b, btask[t].o))
BKeySet == key_set_pks(redis_prefix)

NoFail == [at |-> "", member |-> ""]
\* no history, and none kept
NoHist == [on |-> FALSE, lastFail |-> NoFail, preClear |-> {}, hooked |-> {}]
\* the history, where one is kept, after the construction of task t has
\* failed at its step
Failed(t) ==
    IF ~hist.on THEN hist
    ELSE [hist EXCEPT !.lastFail = [at |-> btask[t].pc, member |-> btask[t].member]]
\* after the dedup set has been cleared: what it held, and a construction
\* that failed after its add is forgotten
Cleared ==
    IF ~hist.on THEN hist
    ELSE [hist EXCEPT !.lastFail = IF @.at = "on_instantiation" THEN NoFail ELSE @,
                      !.preClear = sets[BKeySet],
                      !.hooked = {}]
\* after on_pk_sadd has run for the identity of task t
Hooked(t) ==
    IF ~hist.on THEN hist
    ELSE [hist EXCEPT !.hooked = @ \cup {btask[t].member}]
\* after task t has added its identity: a failure with that identity is
\* forgotten
Added(t) ==
    IF hist.on /\ hist.lastFail.member = btask[t].member
    THEN [hist EXCEPT !.lastFail = NoFail] ELSE hist

\* the error is noted and the call goes on from the same step
BorgFail_ignored(t, e) ==
    btask' = [btask EXCEPT ![t].failedAt = btask[t].pc]

BorgFail(t, e) ==
    btask' = [btask EXCEPT ![t].trace = Append(@, btask[t].pc),
                           ![t].failedAt = btask[t].pc,
                           ![t].pc = "done", ![t].result = Err(e)]

\* the caller starts borg(c, rpool, &b, o)
BorgCall(t, b, o) ==
    /\ btask[t].pc = "idle"
    /\ btask' = [btask EXCEPT ![t] =
          [pc |-> "on_invocation", b |-> b, o |-> o, r |-> "", member |-> "",
           hit |-> FALSE, dedup |-> "unchecked", ranHook |-> FALSE, card |-> 0,
           cleared |-> FALSE, added |-> FALSE, trace |-> <<>>, failedAt |-> "",
           result |-> NoResult]]
    /\ UNCHANGED <<notBorg, cache, sets, rsrc, firstSight>>

\* a call starts only when no other call is in progress
BorgCallSeq(t, b, o) ==
    /\ \A u \in BorgTasks : btask[u].pc = "idle"
    /\ BorgCall(t, b, o)

\* the result of on_invocation is not looked at: the call goes on
BorgOnInvocation_unchecked(t) ==
    /\ btask[t].pc = "on_invocation"
    /\ \/ btask' = [btask EXCEPT ![t].trace = Append(@, btask[t].pc), ![t].pc = "get_r"]
       \/ btask' = [btask EXCEPT ![t].trace = Append(@, btask[t].pc),
                                  ![t].failedAt = "on_invocation", ![t].pc = "get_r"]
    /\ UNCHANGED <<notBorg, cache, sets, rsrc, firstSight>>

\* borg.rs 118
BorgOnInvocation(t) ==
    /\ btask[t].pc = "on_invocation"
    /\ \/ btask' = [btask EXCEPT ![t].trace = Append(@, btask[t].pc), ![t].pc = "get_r"]
       \/ BorgFail(t, "Hook")
    /\ UNCHANGED <<notBorg, cache, sets, rsrc, firstSight>>

\* redis_value is called and its result stored whatever the cache read returns
BorgGetR_recompute(t) ==
    /\ btask[t].pc = "get_r"
    /\ \/ LET cached == rediserde_get(cache[BKeyR(t)]) IN
          IF cached.kind = "Err" THEN BorgFail(t, cached.err)
          ELSE btask' = [btask EXCEPT ![t].trace = Append(@, btask[t].pc),
                                      ![t].pc = "redis_value",
                                      ![t].hit = cached.val.some]
       \/ \E e \in RedisErrors : BorgFail(t, e)
    /\ UNCHANGED <<notBorg, cache, sets, rsrc, firstSight>>

\* borg.rs 125-127
BorgGetR(t) ==
    /\ btask[t].pc = "get_r"
    /\ \/ LET cached == rediserde_get(cache[BKeyR(t)]) IN
          IF cached.kind = "Err" THEN BorgFail(t, cached.err)
          ELSE IF cached.val.some
               THEN btask' = [btask EXCEPT ![t].trace = Append(@, btask[t].pc), ![t].pc = "generate",
                                           ![t].r = cached.val.val,
                                           ![t].hit = TRUE]
               ELSE btask' = [btask EXCEPT ![t].trace = Append(@, btask[t].pc), ![t].pc = "redis_value"]
       \/ \E e \in RedisErrors : BorgFail(t, e)
    /\ UNCHANGED <<notBorg, cache, sets, rsrc, firstSight>>

\* borg.rs 130
BorgRedisValue(t) ==
    /\ btask[t].pc = "redis_value"
    /\ \/ btask' = [btask EXCEPT ![t].trace = Append(@, btask[t].pc), ![t].pc = "set_ex_r", ![t].r = redis_value(btask[t].b, btask[t].o)]
       \/ BorgFail(t, "Hook")
    /\ UNCHANGED <<notBorg, cache, sets, rsrc, firstSight>>

\* borg.rs 131
BorgSetExR(t) ==
    /\ btask[t].pc = "set_ex_r"
    /\ \/ /\ cache' = [cache EXCEPT ![BKeyR(t)] =
                          rediserde_set_ex(btask[t].r, redis_expiry_r)]
          /\ btask' = [btask EXCEPT ![t].trace = Append(@, btask[t].pc), ![t].pc = "generate"]
       \/ /\ \E e \in RedisErrors : BorgFail(t, e)
          /\ UNCHANGED cache
    /\ UNCHANGED <<notBorg, sets, rsrc, firstSight>>

\* borg.rs 136-140
BorgGenerate(t) ==
    /\ btask[t].pc = "generate"
    /\ \/ LET g == generate(btask[t].b, btask[t].o, btask[t].r)
              inst == instantiate(btask[t].b, g)
          IN btask' = [btask EXCEPT ![t].trace = Append(Append(@, "generate"), "instantiate"),
                                    ![t].pc = "sismember",
                                    ![t].member = redis_pk_member(inst)]
       \/ BorgFail(t, "Hook")
    /\ UNCHANGED <<notBorg, cache, sets, rsrc, firstSight>>

\* on_pk_sadd is called whatever SISMEMBER answers
BorgSismember_always(t) ==
    /\ btask[t].pc = "sismember"
    /\ \/ btask' = [btask EXCEPT ![t].trace = Append(@, btask[t].pc),
                                  ![t].pc = "on_pk_sadd",
                                  ![t].dedup = IF sismember_str(sets[BKeySet], btask[t].member)
                                               THEN "present" ELSE "absent"]
       \/ \E e \in RedisErrors : BorgFail(t, e)
    /\ UNCHANGED <<notBorg, cache, sets, rsrc, firstSight>>

\* borg.rs 141
BorgSismember(t) ==
    /\ btask[t].pc = "sismember"
    /\ \/ IF sismember_str(sets[BKeySet], btask[t].member)
          THEN btask' = [btask EXCEPT ![t].trace = Append(@, btask[t].pc), ![t].pc = "on_instantiation",
                                      ![t].dedup = "present"]
          ELSE btask' = [btask EXCEPT ![t].trace = Append(@, btask[t].pc), ![t].pc = "on_pk_sadd",
                                      ![t].dedup = "absent"]
       \/ \E e \in RedisErrors : BorgFail(t, e)
    /\ UNCHANGED <<notBorg, cache, sets, rsrc, firstSight>>

\* the identity is added before the hook is called
BorgOnPkSadd_addsFirst(t) ==
    /\ btask[t].pc = "on_pk_sadd"
    /\ sets' = [sets EXCEPT ![BKeySet] = sadd_str(@, btask[t].member)]
    /\ \/ /\ btask' = [btask EXCEPT ![t].trace = Append(@, btask[t].pc), ![t].pc = "scard", ![t].ranHook = TRUE]
          /\ hist' = Hooked(t)
       \/ /\ BorgFail(t, "Hook")
          /\ hist' = Failed(t)
    /\ UNCHANGED <<borgOthers, cache, rsrc, firstSight>>

\* borg.rs 142: the first-sight hook runs, or fails
BorgOnPkSadd(t) ==
    /\ btask[t].pc = "on_pk_sadd"
    /\ \/ /\ btask' = [btask EXCEPT ![t].trace = Append(@, btask[t].pc), ![t].pc = "scard", ![t].ranHook = TRUE]
          /\ firstSight' = [firstSight EXCEPT ![btask[t].member] =
                               IF @ = 0 THEN 0 ELSE @ + 1]
          /\ hist' = Hooked(t)
          /\ UNCHANGED sets
       \/ /\ BorgFail(t, "Hook")
          /\ hist' = Failed(t)
          /\ UNCHANGED <<firstSight, sets>>
    /\ UNCHANGED <<borgOthers, cache, rsrc>>

\* the set-add is left out: the call goes from the cardinality check to
\* on_instantiation
BorgScard_noAdd(t) ==
    /\ btask[t].pc = "scard"
    /\ \/ btask' = [btask EXCEPT ![t].trace = Append(@, btask[t].pc),
                                  ![t].card = scard(sets[BKeySet]),
                                  ![t].pc = "on_instantiation"]
       \/ \E e \in RedisErrors : BorgFail(t, e)
    /\ UNCHANGED <<notBorg, cache, sets, rsrc, firstSight>>

\* borg.rs 143
BorgScard(t) ==
    /\ btask[t].pc = "scard"
    /\ \/ LET card == scard(sets[BKeySet]) IN
          btask' = [btask EXCEPT ![t].trace = Append(@, btask[t].pc), ![t].card = card,
                                 ![t].pc = IF PkSetTooLarge(card) THEN "del" ELSE "sadd"]
       \/ \E e \in RedisErrors : BorgFail(t, e)
    /\ UNCHANGED <<notBorg, cache, sets, rsrc, firstSight>>

\* the DEL leaves the set as it is
BorgDel_noClear(t) ==
    /\ btask[t].pc = "del"
    /\ \/ /\ btask' = [btask EXCEPT ![t].trace = Append(@, btask[t].pc), ![t].pc = "sadd", ![t].cleared = TRUE]
          /\ UNCHANGED <<sets, firstSight>>
       \/ /\ \E e \in RedisErrors : BorgFail(t, e)
          /\ UNCHANGED <<sets, firstSight>>
    /\ UNCHANGED <<notBorg, cache, rsrc>>

\* borg.rs 145
BorgDel(t) ==
    /\ btask[t].pc = "del"
    /\ \/ /\ sets' = [sets EXCEPT ![BKeySet] = del_set]
          /\ btask' = [btask EXCEPT ![t].trace = Append(@, btask[t].pc), ![t].pc = "sadd", ![t].cleared = TRUE]
          /\ firstSight' = [m \in Members |-> 0]
          /\ hist' = Cleared
       \/ /\ \E e \in RedisErrors : BorgFail(t, e)
          /\ UNCHANGED <<sets, firstSight, hist>>
    /\ UNCHANGED <<borgOthers, cache, rsrc>>

\* borg.rs 147
BorgSadd(t) ==
    /\ btask[t].pc = "sadd"
    /\ \/ /\ sets' = [sets EXCEPT ![BKeySet] = sadd_str(@, btask[t].member)]
          /\ btask' = [btask EXCEPT ![t].trace = Append(@, btask[t].pc), ![t].pc = "on_instantiation", ![t].added = TRUE]
          /\ firstSight' = [firstSight EXCEPT ![btask[t].member] =
                               IF @ = 0 THEN 1 ELSE @]
          /\ hist' = Added(t)
       \/ /\ \E e \in RedisErrors : BorgFail(t, e)
          /\ UNCHANGED <<sets, firstSight, hist>>
    /\ UNCHANGED <<borgOthers, cache, rsrc>>

\* a failure of on_instantiation takes the identity out of the set again
BorgOnInstantiation_rollback(t) ==
    /\ btask[t].pc = "on_instantiation"
    /\ \/ /\ btask' = [btask EXCEPT ![t].trace = Append(@, btask[t].pc), ![t].pc = "done",
                       ![t].result = Ok(instantiate(btask[t].b,
                                          generate(btask[t].b, btask[t].o, btask[t].r)))]
          /\ UNCHANGED <<hist, sets>>
       \/ /\ BorgFail(t, "Hook")
          /\ hist' = Failed(t)
          /\ sets' = [sets EXCEPT ![BKeySet] = @ \ {btask[t].member}]
    /\ UNCHANGED <<borgOthers, cache, rsrc, firstSight>>

\* borg.rs 150-151
BorgOnInstantiation(t) ==
    /\ btask[t].pc = "on_instantiation"
    /\ \/ /\ btask' = [btask EXCEPT ![t].trace = Append(@, btask[t].pc), ![t].pc = "done",
                       ![t].result = Ok(instantiate(btask[t].b,
                                          generate(btask[t].b, btask[t].o, btask[t].r)))]
          /\ UNCHANGED hist
       \/ /\ BorgFail(t, "Hook")
          /\ hist' = Failed(t)
    /\ UNCHANGED <<borgOthers, cache, sets, rsrc, firstSight>>

\* the caller takes the result; the task is free for another call
BorgReturn(t) ==
    /\ btask[t].pc = "done"
    /\ btask' = [btask EXCEPT ![t] = IdleTask]
    /\ UNCHANGED <<notBorg, cache, sets, rsrc, firstSight>>

\* the data redis_value reads changes in the durable store
DurableChange(r) ==
    /\ rsrc # r
    /\ rsrc' = r
    /\ UNCHANGED <<notBorg, cache, sets, btask, firstSight>>

\* a second passes: Redis expires what is due
BorgTick ==
    /\ \E k \in DOMAIN cache : cache[k] # Nil
    /\ cache' = [k \in DOMAIN cache |-> Elapse(cache[k])]
    /\ UNCHANGED <<notBorg, sets, rsrc, btask, firstSight>>

\* another writer leaves a payload under an R key that does not parse
BorgForeignWrite(k) ==
    /\ cache[k] = Nil
    /\ cache' = [cache EXCEPT ![k] = redis_set(Malformed)]
    /\ UNCHANGED <<notBorg, sets, rsrc, btask, firstSight>>

\* the variables of the other components, at rest
IdleCoc == [pc |-> "idle"]
NoLast == [kind |-> "none"]
NoGot == [key |-> ""]

CocAtRest ==
    /\ db = <<>>
    /\ ctask = IdleCoc
    /\ last = NoLast

StoreAtRest ==
    /\ got = NoGot
    /\ lastWrite = <<>>

ResAtRest ==
    /\ table = <<>>
    /\ seq = 1
    /\ returning = TRUE
    /\ rtask = <<>>
    /\ worker = <<>>
    /\ deletes = 0

SanAtRest == san = [pc |-> "idle"]

WarmAtRest ==
    /\ wtask = [pc |-> "idle"]
    /\ wcount = [pc |-> "idle"]

AutoAtRest ==
    /\ hitsdb = <<>>
    /\ atask = [pc |-> "idle"]
    /\ alast = <<>>

BorgAtRest ==
    /\ hist = <<>>
    /\ sets = <<>>
    /\ rsrc = ""
    /\ btask = <<>>
    /\ firstSight = <<>>

BorgInit ==
    /\ CocAtRest
    /\ StoreAtRest
    /\ ResAtRest
    /\ SanAtRest
    /\ AutoAtRest
    /\ WarmAtRest
    /\ cache = [k \in BorgKeys |-> Nil]
    /\ sets = [k \in BorgSetKeys |-> {}]
    /\ rsrc \in RVals
    /\ btask = [t \in BorgTasks |-> IdleTask]
    /\ firstSight = [m \in Members |-> 0]
    /\ hist = NoHist

BorgSteps ==
    \/ \E t \in BorgTasks : BorgOnInvocation(t)
    \/ \E t \in BorgTasks : BorgGetR(t)
    \/ \E t \in BorgTasks : BorgRedisValue(t)
    \/ \E t \in BorgTasks : BorgSetExR(t)
    \/ \E t \in BorgTasks : BorgGenerate(t)
    \/ \E t \in BorgTasks : BorgSismember(t)
    \/ \E t \in BorgTasks : BorgOnPkSadd(t)
    \/ \E t \in BorgTasks : BorgScard(t)
    \/ \E t \in BorgTasks : BorgDel(t)
    \/ \E t \in BorgTasks : BorgSadd(t)
    \/ \E t \in BorgTasks : BorgOnInstantiation(t)
    \/ \E t \in BorgTasks : BorgReturn(t)
    \/ \E r \in RVals : DurableChange(r)
    \/ BorgTick
    \/ \E k \in BorgKeys : BorgForeignWrite(k)

BorgSeqNext ==
    \/ \E t \in BorgTasks, b \in Bs, o \in Os : BorgCallSeq(t, b, o)
    \/ BorgSteps

\* constructions of one type, executed one at a time
SpecBorgSeq == BorgInit /\ [][BorgSeqNext]_vars

\* the same constructions with their history kept, over one durable value
BorgHistInit ==
    /\ CocAtRest
    /\ StoreAtRest
    /\ ResAtRest
    /\ SanAtRest
    /\ AutoAtRest
    /\ WarmAtRest
    /\ cache = [k \in BorgKeys |-> Nil]
    /\ sets = [k \in BorgSetKeys |-> {}]
    /\ rsrc = CHOOSE r \in RVals : TRUE
    /\ btask = [t \in BorgTasks |-> IdleTask]
    /\ firstSight = [m \in Members |-> 0]
    /\ hist = [NoHist EXCEPT !.on = TRUE]

BorgHistNext ==
    \/ \E t \in BorgTasks, b \in Bs, o \in Os : BorgCallSeq(t, b, o)
    \/ \E t \in BorgTasks : BorgOnInvocation(t)
    \/ \E t \in BorgTasks : BorgGetR(t)
    \/ \E t \in BorgTasks : BorgRedisValue(t)
    \/ \E t \in BorgTasks : BorgSetExR(t)
    \/ \E t \in BorgTasks : BorgGenerate(t)
    \/ \E t \in BorgTasks : BorgSismember(t)
    \/ \E t \in BorgTasks : BorgOnPkSadd(t)
    \/ \E t \in BorgTasks : BorgScard(t)
    \/ \E t \in BorgTasks : BorgDel(t)
    \/ \E t \in BorgTasks : BorgSadd(t)
    \/ \E t \in BorgTasks : BorgOnInstantiation(t)
    \/ \E t \in BorgTasks : BorgReturn(t)

\* constructions of one type, executed one at a time, while the R values in
\* the cache neither expire nor change
SpecBorgHist == BorgHistInit /\ [][BorgHistNext]_vars

\* the two tasks whose constructions run concurrently
BorgPair == {1, 2}

BorgNext ==
    \/ \E t \in BorgPair, b \in Bs, o \in Os : BorgCall(t, b, o)
    \/ \E t \in BorgPair : BorgOnInvocation(t)
    \/ \E t \in BorgPair : BorgGetR(t)
    \/ \E t \in BorgPair : BorgRedisValue(t)
    \/ \E t \in BorgPair : BorgSetExR(t)
    \/ \E t \in BorgPair : BorgGenerate(t)
    \/ \E t \in BorgPair : BorgSismember(t)
    \/ \E t \in BorgPair : BorgOnPkSadd(t)
    \/ \E t \in BorgPair : BorgScard(t)
    \/ \E t \in BorgPair : BorgDel(t)
    \/ \E t \in BorgPair : BorgSadd(t)
    \/ \E t \in BorgPair : BorgOnInstantiation(t)
    \/ \E r \in RVals : DurableChange(r)
    \/ BorgTick
    \/ \E k \in BorgKeys : BorgForeignWrite(k)

\* a dedup set as earlier constructions can leave it: redis_pk_max_ct + 1 members
LeftFull == CHOOSE S \in SUBSET Members : Cardinality(S) = redis_pk_max_ct + 1

\* a dedup set as earlier constructions can leave it: redis_pk_max_ct members
LeftAtMax == CHOOSE S \in SUBSET LeftFull : Cardinality(S) = redis_pk_max_ct

\* the pair starts on an empty cache, the dedup set empty, at its maximum or
\* left full
BorgPairInit ==
    /\ CocAtRest
    /\ StoreAtRest
    /\ ResAtRest
    /\ SanAtRest
    /\ AutoAtRest
    /\ WarmAtRest
    /\ cache = [k \in BorgKeys |-> Nil]
    /\ sets \in [BorgSetKeys -> {{}, LeftAtMax, LeftFull}]
    /\ rsrc \in RVals
    /\ btask = [t \in BorgTasks |-> IdleTask]
    /\ firstSight = [m \in Members |-> IF m \in sets[BKeySet] THEN 1 ELSE 0]
    /\ hist = NoHist

\* two constructions of one type running concurrently, one call per task,
\* their steps interleaved in every order
SpecBorg == BorgPairInit /\ [][BorgNext]_vars

(***************************************************************************)
(* Cacheable: the trait's methods, for one implementing type, and the      *)
(* lookups cached_or_cache, cached_or_cache_f, get_one and get_by_pk.      *)
(***************************************************************************)
key_prefix == "animal"

seconds_expiry == ExpirySeconds

\* the parameter lists the lookups are called with: one text parameter
ParamLists == {<<"fox">>, <<"owl">>}

\* the rows the table can hold for a parameter list: <<id, name>>
RowsFor(params) == {<<"7", params[1]>>, <<"8", params[1]>>}

\* {:?} of a text parameter
debug(param) == "\"" \o param \o "\""

\* str::replace("\"", "")
RECURSIVE replace_quotes(_)
replace_quotes(s) ==
    IF Len(s) = 0 THEN ""
    ELSE (IF SubSeq(s, 1, 1) = "\"" THEN "" ELSE SubSeq(s, 1, 1))
             \o replace_quotes(SubSeq(s, 2, Len(s)))

RECURSIVE redis_key_push(_, _)
redis_key_push(key, params) ==
    IF params = <<>> THEN key
    ELSE redis_key_push(key \o replace_quotes("_" \o debug(Head(params))), Tail(params))

\* redis.rs 49-56
redis_key(params) == redis_key_push("cacheable_" \o key_prefix, params)

from_row(row) == row[1] \o ":" \o row[2]

rowfunc(row) == from_row(row)

CocKeys == {redis_key(p) : p \in ParamLists}

CocFns == {"cached_or_cache", "cached_or_cache_f", "get_one", "get_by_pk"}

\* redis.rs 80-83: what cached_or_cache does with the rows of the query
CocAfterQuery(task, rows) ==
    IF Len(rows) = 0
    THEN [task EXCEPT !.pc = "ret", !.opt = Ok(None), !.rows = rows,
                      !.queries = @ + 1]
    ELSE [task EXCEPT !.pc = "set_ex", !.val = from_row(rows[1]), !.rows = rows,
                      !.queries = @ + 1]

\* mutant: a failed cache read is taken for a miss
CocAfterGet_errorIsMiss(task, cached) ==
    IF cached.kind = "Ok" /\ cached.val.some
    THEN [task EXCEPT !.pc = "ret", !.opt = Ok(Some(cached.val.val))]
    ELSE [task EXCEPT !.pc = "query", !.miss = TRUE]

\* redis.rs 74-77: what cached_or_cache does with the answer of rediserde::get
CocAfterGet(task, cached) ==
    IF cached.kind = "Err" THEN [task EXCEPT !.pc = "ret", !.opt = cached]
    ELSE IF cached.val.some
         THEN [task EXCEPT !.pc = "ret", !.opt = Ok(Some(cached.val.val))]
         ELSE [task EXCEPT !.pc = "query", !.miss = TRUE]

\* mutant: a miss is reported as some other error
cached_or_cache_f_other(opt) ==
    IF opt.kind = "Err" THEN opt
    ELSE IF opt.val.some THEN Ok(opt.val.val)
    ELSE Err("Postgres")

\* redis.rs 96-102
cached_or_cache_f(opt) ==
    IF opt.kind = "Err" THEN opt
    ELSE IF opt.val.some THEN Ok(opt.val.val)
    ELSE Err("MissingRow")

\* connect.rs 19-25, on the answer of client.query
get_opt(pgrows) ==
    IF pgrows.kind = "Err" THEN pgrows
    ELSE IF Len(pgrows.val) = 0 THEN Ok(None)
    ELSE Ok(Some(rowfunc(pgrows.val[1])))

\* connect.rs 28-34
get_one(pgrows) ==
    LET opt == get_opt(pgrows) IN
    IF opt.kind = "Err" THEN opt
    ELSE IF opt.val.some THEN Ok(opt.val.val)
    ELSE Err("MissingRow")

\* primary_key.rs 17-23
get_by_pk(pgrows) ==
    IF pgrows.kind = "Err" THEN pgrows
    ELSE IF Len(pgrows.val) = 0 THEN Err("MissingRow")
    ELSE Ok(rowfunc(pgrows.val[1]))

\* the caller starts one of the lookups
CocCall(fn, params) ==
    /\ ctask.pc = "idle"
    /\ ctask' = [pc |-> IF fn \in {"get_one", "get_by_pk"} THEN "pg_query" ELSE "get",
                 fn |-> fn, params |-> params, opt |-> NoResult, result |-> NoResult,
                 queries |-> 0, miss |-> FALSE, stored |-> FALSE,
                 cacheFailed |-> FALSE, val |-> "", rows |-> <<>>]
    /\ UNCHANGED <<notCoc, cache, db, last>>

\* redis.rs 73-76
CocGet ==
    /\ ctask.pc = "get"
    /\ \/ ctask' = CocAfterGet(ctask, rediserde_get(cache[redis_key(ctask.params)]))
       \/ \E e \in RedisErrors :
              ctask' = [CocAfterGet(ctask, Err(e)) EXCEPT !.cacheFailed = TRUE]
    /\ UNCHANGED <<notCoc, cache, db, last>>

\* mutant: an absent row is cached like a value
CocQuery_cachesAbsence ==
    /\ ctask.pc = "query"
    /\ \/ /\ ctask' = CocAfterQuery(ctask, db[ctask.params])
          /\ last' = IF Len(db[ctask.params]) # 0 THEN last
                     ELSE IF cache[redis_key(ctask.params)] = Nil
                          THEN [kind |-> "absent", params |-> ctask.params]
                          ELSE NoLast
          /\ cache' = IF Len(db[ctask.params]) = 0
                      THEN [cache EXCEPT ![redis_key(ctask.params)] =
                               rediserde_set_ex("null", seconds_expiry)]
                      ELSE cache
       \/ /\ ctask' = [ctask EXCEPT !.pc = "ret", !.opt = Err("Postgres"),
                                    !.queries = @ + 1]
          /\ UNCHANGED <<last, cache>>
    /\ UNCHANGED <<notCoc, db>>

\* redis.rs 78-81
CocQuery ==
    /\ ctask.pc = "query"
    /\ \/ /\ ctask' = CocAfterQuery(ctask, db[ctask.params])
          /\ last' = IF Len(db[ctask.params]) # 0 THEN last
                     ELSE IF cache[redis_key(ctask.params)] = Nil
                          THEN [kind |-> "absent", params |-> ctask.params]
                          ELSE NoLast
       \/ /\ ctask' = [ctask EXCEPT !.pc = "ret", !.opt = Err("Postgres"),
                                    !.queries = @ + 1]
          /\ UNCHANGED last
    /\ UNCHANGED <<notCoc, cache, db>>

\* the value found is returned although the cache write failed
CocSetEx_valueAnyway ==
    /\ ctask.pc = "set_ex"
    /\ \/ /\ cache' = [cache EXCEPT ![redis_key(ctask.params)] =
                          rediserde_set_ex(ctask.val, seconds_expiry)]
          /\ ctask' = [ctask EXCEPT !.pc = "ret", !.opt = Ok(Some(ctask.val)),
                                    !.stored = TRUE]
          /\ last' = [kind |-> "stored", params |-> ctask.params,
                      val |-> ctask.val, age |-> 0]
       \/ /\ ctask' = [ctask EXCEPT !.pc = "ret", !.opt = Ok(Some(ctask.val)),
                                    !.cacheFailed = TRUE]
          /\ UNCHANGED <<cache, last>>
    /\ UNCHANGED <<notCoc, db>>

\* redis.rs 84-85
CocSetEx ==
    /\ ctask.pc = "set_ex"
    /\ \/ /\ cache' = [cache EXCEPT ![redis_key(ctask.params)] =
                          rediserde_set_ex(ctask.val, seconds_expiry)]
          /\ ctask' = [ctask EXCEPT !.pc = "ret", !.opt = Ok(Some(ctask.val)),
                                    !.stored = TRUE]
          /\ last' = [kind |-> "stored", params |-> ctask.params,
                      val |-> ctask.val, age |-> 0]
       \/ /\ \E e \in RedisErrors :
                 ctask' = [ctask EXCEPT !.pc = "ret", !.opt = Err(e),
                                        !.cacheFailed = TRUE]
          /\ UNCHANGED <<cache, last>>
    /\ UNCHANGED <<notCoc, db>>

\* connect.rs 20, 29 and primary_key.rs 19: the one query of get_one, get_by_pk
CocPgQuery ==
    /\ ctask.pc = "pg_query"
    /\ \/ ctask' = [ctask EXCEPT !.pc = "ret", !.opt = Ok(db[ctask.params]),
                                 !.rows = db[ctask.params], !.queries = @ + 1]
       \/ ctask' = [ctask EXCEPT !.pc = "ret", !.opt = Err("Postgres"),
                                 !.queries = @ + 1]
    /\ UNCHANGED <<notCoc, cache, db, last>>

\* the lookup returns to its caller
CocReturn ==
    /\ ctask.pc = "ret"
    /\ ctask' = [ctask EXCEPT !.pc = "done", !.result =
                    CASE ctask.fn = "cached_or_cache" -> ctask.opt
                      [] ctask.fn = "cached_or_cache_f" -> cached_or_cache_f(ctask.opt)
                      [] ctask.fn = "get_one" -> get_one(ctask.opt)
                      [] ctask.fn = "get_by_pk" -> get_by_pk(ctask.opt)]
    /\ UNCHANGED <<notCoc, cache, db, last>>

\* the caller takes the result and is free for another call
CocFinish ==
    /\ ctask.pc = "done"
    /\ ctask' = IdleCoc
    /\ UNCHANGED <<notCoc, cache, db, last>>

\* what a second's passing leaves of `last`: nothing once the entry is gone
LastAfter(newcache) ==
    IF last = NoLast THEN last
    ELSE LET e == newcache[redis_key(last.params)] IN
         IF last.kind = "absent"
         THEN (IF e = Nil THEN last ELSE NoLast)
         ELSE (IF e = Nil \/ e.payload # to_string(last.val) THEN NoLast
               ELSE [last EXCEPT !.age = @ + 1])

\* a second passes: Redis expires what is due
CocTick ==
    /\ \E k \in DOMAIN cache : cache[k] # Nil
    /\ cache' = [k \in DOMAIN cache |-> Elapse(cache[k])]
    /\ last' = LastAfter(cache')
    /\ UNCHANGED <<notCoc, db, ctask>>

\* another writer leaves a payload under a key that does not parse
CocForeignWrite(k) ==
    /\ cache[k] = Nil
    /\ cache' = [cache EXCEPT ![k] = redis_set(Malformed)]
    /\ last' = IF last # NoLast /\ redis_key(last.params) = k THEN NoLast ELSE last
    /\ UNCHANGED <<notCoc, db, ctask>>

\* a row is inserted into the table
DbInsert(params, row) ==
    /\ db[params] = <<>>
    /\ db' = [db EXCEPT ![params] = <<row>>]
    /\ UNCHANGED <<notCoc, cache, ctask, last>>

\* a row is deleted from the table
DbDelete(params) ==
    /\ db[params] # <<>>
    /\ db' = [db EXCEPT ![params] = <<>>]
    /\ UNCHANGED <<notCoc, cache, ctask, last>>

CocInit ==
    /\ BorgAtRest
    /\ StoreAtRest
    /\ ResAtRest
    /\ SanAtRest
    /\ AutoAtRest
    /\ WarmAtRest
    /\ cache = [k \in CocKeys |-> Nil]
    /\ db \in [ParamLists -> {<<>>}]
    /\ ctask = IdleCoc
    /\ last = NoLast

CocNext ==
    \/ \E fn \in CocFns, p \in ParamLists : CocCall(fn, p)
    \/ CocGet
    \/ CocQuery
    \/ CocSetEx
    \/ CocPgQuery
    \/ CocReturn
    \/ CocFinish
    \/ CocTick
    \/ \E k \in CocKeys : CocForeignWrite(k)
    \/ \E p \in ParamLists : \E row \in RowsFor(p) : DbInsert(p, row)
    \/ \E p \in ParamLists : DbDelete(p)

\* one caller of the lookups, the table and the cache changing under it
SpecCache == CocInit /\ [][CocNext]_vars

(***************************************************************************)
(* A client of rediserde: del, set, set_ex and get on a few keys, as the   *)
(* test get_set_struct uses them, with time passing and another writer.    *)
(***************************************************************************)
StoreKeys == {"_OBSCURE_TEST_KEY_1", "_OBSCURE_TEST_KEY_2"}
StoreVals == {"v1", "v2"}

Unknown == [kind |-> "unknown"]

\* redis.rs 259-263
StoreDel(k) ==
    /\ \/ /\ cache' = [cache EXCEPT ![k] = rediserde_del]
          /\ lastWrite' = [lastWrite EXCEPT ![k] = [kind |-> "del"]]
          /\ got' = [fn |-> "del", key |-> k, result |-> Ok("unit"),
                     after |-> lastWrite[k], failed |-> FALSE]
       \/ /\ \E e \in RedisErrors :
                 got' = [fn |-> "del", key |-> k, result |-> Err(e),
                         after |-> lastWrite[k], failed |-> TRUE]
          /\ UNCHANGED <<cache, lastWrite>>
    /\ UNCHANGED notStore

\* redis.rs 286-291
StoreSet(k, v) ==
    /\ \/ /\ cache' = [cache EXCEPT ![k] = rediserde_set(v)]
          /\ lastWrite' = [lastWrite EXCEPT ![k] = [kind |-> "set", val |-> v]]
          /\ got' = [fn |-> "set", key |-> k, result |-> Ok("unit"),
                     after |-> lastWrite[k], failed |-> FALSE]
       \/ /\ \E e \in RedisErrors :
                 got' = [fn |-> "set", key |-> k, result |-> Err(e),
                         after |-> lastWrite[k], failed |-> TRUE]
          /\ UNCHANGED <<cache, lastWrite>>
    /\ UNCHANGED notStore

\* redis.rs 294-299
StoreSetEx(k, v) ==
    /\ \/ /\ cache' = [cache EXCEPT ![k] = rediserde_set_ex(v, ExpirySeconds)]
          /\ lastWrite' = [lastWrite EXCEPT ![k] = [kind |-> "set", val |-> v]]
          /\ got' = [fn |-> "set_ex", key |-> k, result |-> Ok("unit"),
                     after |-> lastWrite[k], failed |-> FALSE]
       \/ /\ \E e \in RedisErrors :
                 got' = [fn |-> "set_ex", key |-> k, result |-> Err(e),
                         after |-> lastWrite[k], failed |-> TRUE]
          /\ UNCHANGED <<cache, lastWrite>>
    /\ UNCHANGED notStore

\* redis.rs 268-281
StoreGet(k) ==
    /\ \/ got' = [fn |-> "get", key |-> k, result |-> rediserde_get(cache[k]),
                  after |-> lastWrite[k], failed |-> FALSE]
       \/ \E e \in RedisErrors :
              got' = [fn |-> "get", key |-> k, result |-> Err(e),
                      after |-> lastWrite[k], failed |-> TRUE]
    /\ UNCHANGED <<notStore, cache, lastWrite>>

\* a second passes: Redis expires what is due, and the write is no longer in force
StoreTick ==
    /\ \E k \in DOMAIN cache : cache[k] # Nil /\ cache[k].expires
    /\ cache' = [k \in DOMAIN cache |-> Elapse(cache[k])]
    /\ lastWrite' = [k \in DOMAIN cache |->
                        IF cache[k] # Nil /\ cache'[k] = Nil THEN Unknown
                        ELSE lastWrite[k]]
    /\ UNCHANGED <<notStore, got>>

\* another writer leaves a payload under a key that does not parse
StoreForeignWrite(k) ==
    /\ cache[k] = Nil
    /\ cache' = [cache EXCEPT ![k] = redis_set(Malformed)]
    /\ lastWrite' = [lastWrite EXCEPT ![k] = Unknown]
    /\ UNCHANGED <<notStore, got>>

StoreInit ==
    /\ BorgAtRest
    /\ CocAtRest
    /\ ResAtRest
    /\ SanAtRest
    /\ AutoAtRest
    /\ WarmAtRest
    /\ cache \in [StoreKeys -> {Nil, redis_set("v1")}]
    /\ lastWrite = [k \in StoreKeys |-> Unknown]
    /\ got = NoGot

StoreNext ==
    \/ \E k \in StoreKeys : StoreDel(k)
    \/ \E k \in StoreKeys, v \in StoreVals : StoreSet(k, v)
    \/ \E k \in StoreKeys, v \in StoreVals : StoreSetEx(k, v)
    \/ \E k \in StoreKeys : StoreGet(k)
    \/ StoreTick
    \/ \E k \in StoreKeys : StoreForeignWrite(k)

\* a client of the cache store
SpecStore == StoreInit /\ [][StoreNext]_vars

(***************************************************************************)
(* get_string_id: resolve a name to its identifier in a table with a       *)
(* unique constraint on the name, inserting the name when it is new.       *)
(* Each await of the function is one step of the calling task.             *)
(***************************************************************************)
ResTasks == 1..NumResTasks
Names == {"ann", "bob"}
Workers == {"w1", "w2"}

\* tokio_postgres::Error::to_string for SQLSTATE 23505 on the name column
DupKeyText == "db error: ERROR: duplicate key value violates unique constraint names_name_key"
\* the text of the other failures of a statement
OtherErrorTexts ==
    {"db error: ERROR: new row violates check constraint names_name_check"}
\* the text get_string_id looks for in the error of the insert
DupNeedle == "duplicate key value violates unique constraint"

\* PachyDarn::Postgres, from the error of a statement
PgErr(text) == [kind |-> "Err", err |-> "Postgres", text |-> text]
\* PachyDarn::MissingRow
MissingRow == [kind |-> "Err", err |-> "MissingRow", text |-> "MissingRowError"]

IdleRes == [pc |-> "idle", name |-> "", result |-> NoResult, trace |-> <<>>]

\* std::thread::sleep holds the thread: a task sharing it is not polled
Blocked(t) ==
    \E u \in ResTasks \ {t} : worker[u] = worker[t] /\ rtask[u].pc = "sleep"

\* the table after the insert statement of any client, the constraint
\* ignored: the row is replaced
pg_insert_no_unique(tbl, name, id) ==
    [reply |-> Ok(IF returning THEN <<id>> ELSE <<>>),
     tbl |-> [tbl EXCEPT ![name] = <<id>>]]

\* the insert statement, run by the server: the unique constraint on the
\* name refuses a second row
pg_insert(tbl, name, id) ==
    IF tbl[name] # <<>>
    THEN [reply |-> PgErr(DupKeyText), tbl |-> tbl]
    ELSE [reply |-> Ok(IF returning THEN <<id>> ELSE <<>>),
          tbl |-> [tbl EXCEPT ![name] = <<id>>]]

\* the insert is attempted whatever the select returned
ResAfterSelect_insertAnyway(task, reply) ==
    IF reply.kind = "Err"
    THEN [task EXCEPT !.pc = "done", !.result = reply,
                      !.trace = Append(@, "select:err")]
    ELSE [task EXCEPT !.pc = "insert",
                      !.trace = Append(@, IF reply.val # <<>> THEN "select:row"
                                          ELSE "select:none")]

\* the task after the select has answered
ResAfterSelect(task, reply) ==
    IF reply.kind = "Err"
    THEN [task EXCEPT !.pc = "done", !.result = reply,
                      !.trace = Append(@, "select:err")]
    ELSE IF reply.val # <<>>
    THEN [task EXCEPT !.pc = "done", !.result = Ok(reply.val[1]),
                      !.trace = Append(@, "select:row")]
    ELSE [task EXCEPT !.pc = "insert", !.trace = Append(@, "select:none")]

\* an insert that returns no row is slept on and retried
ResAfterInsert_norowRetry(task, reply) ==
    IF reply.kind = "Ok"
    THEN IF reply.val # <<>>
         THEN [task EXCEPT !.pc = "done", !.result = Ok(reply.val[1]),
                           !.trace = Append(@, "insert:row")]
         ELSE [task EXCEPT !.pc = "sleep", !.trace = Append(@, "insert:norow")]
    ELSE IF Contains(reply.text, DupNeedle)
    THEN [task EXCEPT !.pc = "sleep", !.trace = Append(@, "insert:dup")]
    ELSE [task EXCEPT !.pc = "done", !.result = reply,
                      !.trace = Append(@, "insert:err")]

\* every error of the insert is slept on and retried
ResAfterInsert_retryAll(task, reply) ==
    IF reply.kind = "Ok"
    THEN IF reply.val # <<>>
         THEN [task EXCEPT !.pc = "done", !.result = Ok(reply.val[1]),
                           !.trace = Append(@, "insert:row")]
         ELSE [task EXCEPT !.pc = "done", !.result = MissingRow,
                           !.trace = Append(@, "insert:norow")]
    ELSE [task EXCEPT !.pc = "sleep",
                      !.trace = Append(@, IF Contains(reply.text, DupNeedle)
                                          THEN "insert:dup" ELSE "insert:err")]

\* the task after the insert has answered
ResAfterInsert(task, reply) ==
    IF reply.kind = "Ok"
    THEN IF reply.val # <<>>
         THEN [task EXCEPT !.pc = "done", !.result = Ok(reply.val[1]),
                           !.trace = Append(@, "insert:row")]
         ELSE [task EXCEPT !.pc = "done", !.result = MissingRow,
                           !.trace = Append(@, "insert:norow")]
    ELSE IF Contains(reply.text, DupNeedle)
    THEN [task EXCEPT !.pc = "sleep", !.trace = Append(@, "insert:dup")]
    ELSE [task EXCEPT !.pc = "done", !.result = reply,
                      !.trace = Append(@, "insert:err")]

\* a task calls get_string_id(c, name, query, insert)
ResCall(t, n) ==
    /\ rtask[t].pc = "idle"
    /\ ~Blocked(t)
    /\ rtask' = [rtask EXCEPT ![t] = [IdleRes EXCEPT !.pc = "select", !.name = n]]
    /\ UNCHANGED <<notRes, table, seq, returning, worker, deletes>>

\* c.query(query, &[&name]).await? and the match on rows.get(0)
ResSelect(t) ==
    /\ rtask[t].pc = "select"
    /\ ~Blocked(t)
    /\ \E reply \in {Ok(table[rtask[t].name])} \cup {PgErr(e) : e \in OtherErrorTexts} :
           rtask' = [rtask EXCEPT ![t] = ResAfterSelect(@, reply)]
    /\ UNCHANGED <<notRes, table, seq, returning, worker, deletes>>

\* c.query(insert, &[&name]).await and the match on its result
ResInsert(t) ==
    /\ rtask[t].pc = "insert"
    /\ ~Blocked(t)
    /\ \/ LET r == pg_insert(table, rtask[t].name, seq) IN
            /\ table' = r.tbl
            /\ seq' = IF r.reply.kind = "Ok" THEN seq + 1 ELSE seq
            /\ rtask' = [rtask EXCEPT ![t] = ResAfterInsert(@, r.reply)]
       \/ \E e \in OtherErrorTexts :
            /\ rtask' = [rtask EXCEPT ![t] = ResAfterInsert(@, PgErr(e))]
            /\ UNCHANGED <<table, seq>>
    /\ UNCHANGED <<notRes, returning, worker, deletes>>

\* after the sleep only the insert is run again
ResWake_retryInsert(t) ==
    /\ rtask[t].pc = "sleep"
    /\ rtask' = [rtask EXCEPT ![t] = [@ EXCEPT !.pc = "insert",
                                               !.trace = Append(@, "sleep")]]
    /\ UNCHANGED <<notRes, table, seq, returning, worker, deletes>>

\* std::thread::sleep returns and the function calls itself
ResWake(t) ==
    /\ rtask[t].pc = "sleep"
    /\ rtask' = [rtask EXCEPT ![t] = [@ EXCEPT !.pc = "select",
                                               !.trace = Append(@, "sleep")]]
    /\ UNCHANGED <<notRes, table, seq, returning, worker, deletes>>

\* another client of the table inserts the row of a name
ResForeignInsert(n) ==
    /\ seq <= MaxForeignId
    /\ pg_insert(table, n, seq).reply.kind = "Ok"
    /\ table' = pg_insert(table, n, seq).tbl
    /\ seq' = seq + 1
    /\ UNCHANGED <<notRes, returning, rtask, worker, deletes>>

\* another client of the table deletes the row of a name
ResDelete(n) ==
    /\ table[n] # <<>>
    /\ deletes < MaxDeletes
    /\ table' = [table EXCEPT ![n] = <<>>]
    /\ deletes' = deletes + 1
    /\ UNCHANGED <<notRes, seq, returning, rtask, worker>>

ResInit ==
    /\ BorgAtRest
    /\ CocAtRest
    /\ StoreAtRest
    /\ cache = <<>>
    /\ table = [n \in Names |-> <<>>]
    /\ seq = 1
    /\ returning \in BOOLEAN
    /\ rtask = [t \in ResTasks |-> IdleRes]
    /\ worker \in {w \in [ResTasks -> Workers] : w[1] = "w1"}
    /\ deletes = 0
    /\ SanAtRest
    /\ AutoAtRest
    /\ WarmAtRest

ResNext ==
    \/ \E t \in ResTasks, n \in Names : ResCall(t, n)
    \/ \E t \in ResTasks : ResSelect(t)
    \/ \E t \in ResTasks : ResInsert(t)
    \/ \E t \in ResTasks : ResWake(t)
    \/ \E n \in Names : ResForeignInsert(n)
    \/ \E n \in Names : ResDelete(n)

\* tasks resolving names concurrently in one table
SpecResolve == ResInit /\ [][ResNext]_vars

\* the runtime polls every task that is ready, the server answers every
\* statement and a sleep returns after its delay
ResFair ==
    \A t \in ResTasks :
        /\ WF_vars(ResSelect(t))
        /\ WF_vars(ResInsert(t))
        /\ WF_vars(ResWake(t))

\* the same tasks, none of them starved
SpecResolveFair == ResInit /\ [][ResNext]_vars /\ ResFair

(***************************************************************************)
(* sanitize_tsquery: a phrase is a sequence of characters; each regex of   *)
(* the function is an operator that makes the replacement the regex makes. *)
(***************************************************************************)
Lowercase == {"a", "b", "c", "d", "e", "f", "g", "h", "i", "j", "k", "l", "m",
              "n", "o", "p", "q", "r", "s", "t", "u", "v", "w", "x", "y", "z"}
Uppercase == {"A", "B", "C", "D", "E", "F", "G", "H", "I", "J", "K", "L", "M",
              "N", "O", "P", "Q", "R", "S", "T", "U", "V", "W", "X", "Y", "Z"}
Digits == {"0", "1", "2", "3", "4", "5", "6", "7", "8", "9"}
\* [a-zA-Z0-9]
IsAlnum(c) == c \in Lowercase \cup Uppercase \cup Digits
\* \s
IsSpace(c) == c \in {" ", "\t", "\n"}
\* & | !
IsOp(c) == c \in {"&", "|", "!"}

\* the characters phrases are drawn from: a letter, a digit, the two kinds
\* of whitespace, the three operators and a character outside the allowed set
PhraseChars == {"a", "7", " ", "\t", "&", "|", "!", "-"}
CrimsonThread == <<"c", "r", "i", "m", "s", "o", "n", " ", "t", "h", "r", "e", "a", "d">>
RECURSIVE SeqsUpTo(_, _)
SeqsUpTo(S, n) ==
    IF n = 0 THEN {<<>>}
    ELSE LET shorter == SeqsUpTo(S, n - 1)
         IN  shorter \cup {Append(s, c) : s \in {x \in shorter : Len(x) = n - 1}, c \in S}
Phrases == SeqsUpTo(PhraseChars, MaxPhraseLen) \cup {CrimsonThread}

\* special_chars.replace_all(input, " "): [^a-zA-Z0-9\s&|!] becomes a space
special_chars(s) ==
    [i \in 1..Len(s) |-> IF IsAlnum(s[i]) \/ IsSpace(s[i]) \/ IsOp(s[i])
                         THEN s[i] ELSE " "]

\* multiple_spaces.replace_all(s, " "): every run of \s+ becomes one space
RECURSIVE multiple_spaces(_)
multiple_spaces(s) ==
    IF s = <<>> THEN <<>>
    ELSE IF IsSpace(s[1])
    THEN IF Len(s) > 1 /\ IsSpace(s[2])
         THEN multiple_spaces(Tail(s))
         ELSE <<" ">> \o multiple_spaces(Tail(s))
    ELSE <<s[1]>> \o multiple_spaces(Tail(s))

\* str::trim
RECURSIVE trim(_)
trim(s) ==
    IF s = <<>> THEN <<>>
    ELSE IF IsSpace(s[1]) THEN trim(Tail(s))
    ELSE IF IsSpace(s[Len(s)]) THEN trim(SubSeq(s, 1, Len(s) - 1))
    ELSE s

\* cleaned.replace(" ", " & ")
RECURSIVE replace_space(_)
replace_space(s) ==
    IF s = <<>> THEN <<>>
    ELSE IF s[1] = " " THEN <<" ", "&", " ">> \o replace_space(Tail(s))
    ELSE <<s[1]>> \o replace_space(Tail(s))

\* the characters of s after its leading run of c
RECURSIVE SkipRun(_, _)
SkipRun(s, c) ==
    IF s # <<>> /\ s[1] = c THEN SkipRun(Tail(s), c) ELSE s

\* runs of one operator are left as they are
duplicate_operators_kept(s) == s

\* duplicate_operators.replace_all(s, " "): (&{2,}|!{2,}|\|{2,}) becomes a space
RECURSIVE duplicate_operators(_)
duplicate_operators(s) ==
    IF s = <<>> THEN <<>>
    ELSE IF IsOp(s[1]) /\ Len(s) > 1 /\ s[2] = s[1]
    THEN <<" ">> \o duplicate_operators(SkipRun(s, s[1]))
    ELSE <<s[1]>> \o duplicate_operators(Tail(s))

\* leading_trailing_ops.replace_all(s, ""): ^(&|\||!)|(&|\||!)$ is removed,
\* one operator at the start and one at the end
leading_trailing_ops(s) ==
    LET t == IF s # <<>> /\ IsOp(s[1]) THEN Tail(s) ELSE s
    IN  IF t # <<>> /\ IsOp(t[Len(t)]) THEN SubSeq(t, 1, Len(t) - 1) ELSE t

\* the suffix is pushed before the phrase is cleaned
sanitize_tsquery_suffixFirst(input, is_autocomp) ==
    LET c0 == IF is_autocomp THEN input \o <<":", "*">> ELSE input
        c1 == special_chars(c0)
        c2 == trim(multiple_spaces(c1))
        c3 == replace_space(c2)
        c4 == duplicate_operators(c3)
    IN  leading_trailing_ops(c4)

sanitize_tsquery(input, is_autocomp) ==
    LET c1 == special_chars(input)
        c2 == trim(multiple_spaces(c1))
        c3 == replace_space(c2)
        c4 == duplicate_operators(c3)
        c5 == leading_trailing_ops(c4)
    IN  IF is_autocomp THEN c5 \o <<":", "*">> ELSE c5

ts_expression(phrase) == sanitize_tsquery(phrase, TRUE)

IdleSan == [pc |-> "idle", input |-> <<>>, via |-> "", is_autocomp |-> FALSE, out |-> <<>>]

\* a caller sanitizes its phrase
SanCall(b) ==
    /\ san.pc = "phrase"
    /\ san' = [san EXCEPT !.pc = "done", !.via = "sanitize_tsquery", !.is_autocomp = b,
                          !.out = sanitize_tsquery(san.input, b)]
    /\ UNCHANGED notSan

\* exec_autocomp and exec_fulltext make the expression of their phrase
SanTsExpression ==
    /\ san.pc = "phrase"
    /\ san' = [san EXCEPT !.pc = "done", !.via = "ts_expression", !.is_autocomp = TRUE,
                          !.out = ts_expression(san.input)]
    /\ UNCHANGED notSan

SanInit ==
    /\ BorgAtRest
    /\ CocAtRest
    /\ StoreAtRest
    /\ ResAtRest
    /\ AutoAtRest
    /\ cache = <<>>
    /\ WarmAtRest
    /\ san \in {[IdleSan EXCEPT !.pc = "phrase", !.input = p] : p \in Phrases}

SanNext ==
    \/ \E b \in BOOLEAN : SanCall(b)
    \/ SanTsExpression

\* the expression builder, over every phrase up to the length bound
SpecSanitize == SanInit /\ [][SanNext]_vars

(***************************************************************************)
(* CachedAutoComp: the key of a phrase, recache, and warm_the_cache, the   *)
(* sweep that recaches every short phrase.  Each recache is one step of    *)
(* the sweep.                                                              *)
(***************************************************************************)
UpperSeq ==
    <<"A", "B", "C", "D", "E", "F", "G", "H", "I", "J", "K", "L", "M",
      "N", "O", "P", "Q", "R", "S", "T", "U", "V", "W", "X", "Y", "Z">>
LowerSeq ==
    <<"a", "b", "c", "d", "e", "f", "g", "h", "i", "j", "k", "l", "m",
      "n", "o", "p", "q", "r", "s", "t", "u", "v", "w", "x", "y", "z">>
\* char::to_lowercase
LowerChar(c) ==
    IF c \in Uppercase
    THEN LowerSeq[CHOOSE i \in 1..Len(UpperSeq) : UpperSeq[i] = c]
    ELSE c
\* str::to_lowercase
to_lowercase(s) == [i \in 1..Len(s) |-> LowerChar(s[i])]

dtype == "animal"
\* the key is made of the phrase as it was typed
autocomp_key_cased(phrase) == [text |-> "autocomp_" \o dtype \o "_", lphrase |-> phrase]

\* the key of a phrase: the text before the phrase, and the lowercased phrase
autocomp_key(phrase) == [text |-> "autocomp_" \o dtype \o "_", lphrase |-> to_lowercase(phrase)]

\* the hit lists exec_autocomp may return, as serde_json writes them
HitLists == {"[]", "[hit]"}

chars1 ==
    <<"a", "b", "c", "d", "e", "f", "g", "h", "i", "j", "k", "l", "m",
      "n", "o", "p", "q", "r", "s", "t", "u", "v", "w", "x", "y", "z",
      "0", "1", "2", "3", "4", "5", "6", "7", "8", "9">>
chars23 ==
    <<"a", "b", "c", "d", "e", "f", "g", "h", "i", "j", "k", "l", "m",
      "n", "o", "p", "q", "r", "s", "t", "u", "v", "w", "x", "y", "z",
      "_", ".", "!", "?", "-", "0", "1", "2", "3", "4", "5", "6", "7",
      "8", "9", " ">>
PreWarmDepth == {"Char1", "Char2", "Char3"}

IdleWarm == [pc |-> "idle"]
StartWarm(d) ==
    [pc |-> "c1", depth |-> d, i1 |-> 1, i2 |-> 1, i3 |-> 1, phrase |-> <<>>,
     calls |-> 0, level |-> 0, at |-> <<0, 0, 0>>, result |-> NoResult]

\* the end of one pass of the loop over c1
WarmNext1(task) ==
    IF task.i1 < Len(chars1)
    THEN [task EXCEPT !.pc = "c1", !.i1 = @ + 1]
    ELSE [task EXCEPT !.pc = "done", !.result = Ok("()")]

\* the end of one pass of the loop over c2
WarmNext2(task) ==
    IF task.i2 < Len(chars23)
    THEN [task EXCEPT !.pc = "c2", !.i2 = @ + 1]
    ELSE WarmNext1(task)

\* the end of one pass of the loop over c3
WarmNext3(task) ==
    IF task.i3 < Len(chars23)
    THEN [task EXCEPT !.pc = "c3", !.i3 = @ + 1]
    ELSE WarmNext2(task)

\* the match on prewarm_depth is left out: every depth goes on to c2
WarmAfter1_deeper(task) == [task EXCEPT !.pc = "c2", !.i2 = 1]

\* after the recache of the loop over c1: Char1 => continue
WarmAfter1(task) ==
    IF task.depth = "Char1" THEN WarmNext1(task)
    ELSE [task EXCEPT !.pc = "c2", !.i2 = 1]

\* the loop over c3 is left out: every depth goes on with the next c2
WarmAfter2_shallow(task) == WarmNext2(task)

\* after the recache of the loop over c2: Char3 => {}, _ => continue
WarmAfter2(task) ==
    IF task.depth = "Char3" THEN [task EXCEPT !.pc = "c3", !.i3 = 1]
    ELSE WarmNext2(task)

\* the sweep as it calls recache: the phrase it passes, the number of the
\* call, the loop that makes it and the characters the loops are at
WarmCalled(level, phrase) ==
    [wtask EXCEPT !.phrase = phrase, !.calls = @ + 1, !.level = level,
                  !.at = <<wtask.i1,
                           IF level >= 2 THEN wtask.i2 ELSE 0,
                           IF level >= 3 THEN wtask.i3 ELSE 0>>]

\* recache(pool, c, phrase) called by the sweep at the given level of its
\* loops, and what the sweep does with the result: exec_autocomp fails, or
\* set_ex fails, or the hits are stored under the key of the phrase
WarmRecache(phrase, called, after) ==
        \/ /\ \E e \in {"Postgres"} \cup RedisErrors :
                wtask' = [called EXCEPT !.pc = "done", !.result = Err(e)]
           /\ UNCHANGED cache
        \/ \E hits \in HitLists :
              /\ cache' = [k \in {autocomp_key(phrase)} |->
                               rediserde_set_ex(hits, seconds_expiry)]
              /\ wtask' = after

\* let mut phrase = c1.to_string(); recache(.., &phrase)
WarmRecache1 ==
    /\ wtask.pc = "c1"
    /\ LET phrase == <<chars1[wtask.i1]>>
       IN  WarmRecache(phrase, WarmCalled(1, phrase), WarmAfter1(WarmCalled(1, phrase)))
    /\ UNCHANGED notWarm

\* phrase.push(c2); recache(.., &phrase)
WarmRecache2 ==
    /\ wtask.pc = "c2"
    /\ LET phrase == Append(wtask.phrase, chars23[wtask.i2])
       IN  WarmRecache(phrase, WarmCalled(2, phrase), WarmAfter2(WarmCalled(2, phrase)))
    /\ UNCHANGED notWarm

\* phrase.push(c3); recache(.., &phrase)
WarmRecache3 ==
    /\ wtask.pc = "c3"
    /\ LET phrase == Append(wtask.phrase, chars23[wtask.i3])
       IN  WarmRecache(phrase, WarmCalled(3, phrase), WarmNext3(WarmCalled(3, phrase)))
    /\ UNCHANGED notWarm

WarmInit ==
    /\ BorgAtRest
    /\ CocAtRest
    /\ StoreAtRest
    /\ ResAtRest
    /\ SanAtRest
    /\ AutoAtRest
    /\ cache = <<>>
    /\ wtask \in {StartWarm(d) : d \in PreWarmDepth}
    /\ wcount = [pc |-> "idle"]

WarmSteps ==
    \/ WarmRecache1
    \/ WarmRecache2
    \/ WarmRecache3

\* one sweep of warm_the_cache, for each depth a type may ask for
SpecWarm == WarmInit /\ [][WarmSteps]_vars

(***************************************************************************)
(* The loops of warm_the_cache alone: which loop calls recache, how often, *)
(* and where the sweep ends.  The phrase passed and the entry stored are   *)
(* those of SpecWarm and are left out here.                                *)
(***************************************************************************)
StartCount(d) ==
    [pc |-> "c1", depth |-> d, i1 |-> 1, i2 |-> 1, i3 |-> 1,
     calls |-> 0, level |-> 0, result |-> NoResult]

\* the sweep as it calls recache from the given loop
Counted(level) == [wcount EXCEPT !.calls = @ + 1, !.level = level]

\* recache(..).await?: the call fails and the sweep returns the error, or the
\* sweep goes on
WarmCountCall(called, after) ==
    \/ \E e \in {"Postgres"} \cup RedisErrors :
          wcount' = [called EXCEPT !.pc = "done", !.result = Err(e)]
    \/ wcount' = after

\* redis.rs 172-178
WarmCount1 ==
    /\ wcount.pc = "c1"
    /\ WarmCountCall(Counted(1), WarmAfter1(Counted(1)))
    /\ UNCHANGED notCount

\* redis.rs 179-185
WarmCount2 ==
    /\ wcount.pc = "c2"
    /\ WarmCountCall(Counted(2), WarmAfter2(Counted(2)))
    /\ UNCHANGED notCount

\* redis.rs 186-189
WarmCount3 ==
    /\ wcount.pc = "c3"
    /\ WarmCountCall(Counted(3), WarmNext3(Counted(3)))
    /\ UNCHANGED notCount

WarmCountInit ==
    /\ BorgAtRest
    /\ CocAtRest
    /\ StoreAtRest
    /\ ResAtRest
    /\ SanAtRest
    /\ AutoAtRest
    /\ cache = <<>>
    /\ wtask = IdleWarm
    /\ wcount \in {StartCount(d) : d \in PreWarmDepth}

WarmCountSteps ==
    \/ WarmCount1
    \/ WarmCount2
    \/ WarmCount3

\* one sweep of warm_the_cache, for each depth a type may ask for
SpecWarmCount == WarmCountInit /\ [][WarmCountSteps]_vars

(***************************************************************************)
(* cached_autocomp and recache, called one after the other by one caller,  *)
(* while time passes, the searched table changes and another writer may    *)
(* leave a payload under a key.                                            *)
(***************************************************************************)
\* the phrases the caller asks for: two that differ in case only, and a third
AutoPhrases == {<<"a">>, <<"A">>, <<"b">>}
AutoFns == {"cached_autocomp", "recache"}
AutoKeys == {autocomp_key(p) : p \in AutoPhrases}
IdleAuto == [pc |-> "idle"]
NoStored == [kind |-> "none"]

\* recache, too, looks in the cache before it queries
AutoStart_lookFirst(fn, phrase, entry) ==
    [pc |-> "get", fn |-> fn, phrase |-> phrase,
     hits |-> "", queries |-> 0, hit |-> FALSE, cacheFailed |-> FALSE,
     before |-> entry, result |-> NoResult]

\* redis.rs 146-147, 156-158: the first statement of each function after the
\* key is made; `before` notes what the key held when the call started
AutoStart(fn, phrase, entry) ==
    [pc |-> IF fn = "recache" THEN "exec" ELSE "get", fn |-> fn, phrase |-> phrase,
     hits |-> "", queries |-> 0, hit |-> FALSE, cacheFailed |-> FALSE,
     before |-> entry, result |-> NoResult]

\* a failed cache read is taken for a miss
AutoAfterGet_errorIsMiss(task, cached) ==
    IF cached.kind = "Ok" /\ cached.val.some
    THEN [task EXCEPT !.pc = "done", !.hit = TRUE, !.result = Ok(cached.val.val)]
    ELSE [task EXCEPT !.pc = "exec"]

\* redis.rs 158-162: what cached_autocomp does with the answer of
\* rediserde::get
AutoAfterGet(task, cached) ==
    IF cached.kind = "Err" THEN [task EXCEPT !.pc = "done", !.result = cached]
    ELSE IF cached.val.some
         THEN [task EXCEPT !.pc = "done", !.hit = TRUE, !.result = Ok(cached.val.val)]
         ELSE [task EXCEPT !.pc = "exec"]

\* the caller starts cached_autocomp(pool, c, phrase) or recache(pool, c, phrase)
AutoCall(fn, phrase) ==
    /\ atask.pc = "idle"
    /\ atask' = AutoStart(fn, phrase, cache[autocomp_key(phrase)])
    /\ UNCHANGED <<notAuto, cache, hitsdb, alast>>

\* redis.rs 158
AutoGet ==
    /\ atask.pc = "get"
    /\ \/ atask' = AutoAfterGet(atask, rediserde_get(cache[autocomp_key(atask.phrase)]))
       \/ \E e \in RedisErrors :
              atask' = [AutoAfterGet(atask, Err(e)) EXCEPT !.cacheFailed = TRUE]
    /\ UNCHANGED <<notAuto, cache, hitsdb, alast>>

\* a query that finds nothing is answered without a cache write
AutoExec_emptyNotStored ==
    /\ atask.pc = "exec"
    /\ \/ atask' = [atask EXCEPT !.pc = IF hitsdb[atask.phrase] = "[]"
                                        THEN "done" ELSE "set_ex",
                                 !.hits = hitsdb[atask.phrase],
                                 !.result = IF hitsdb[atask.phrase] = "[]"
                                            THEN Ok("[]") ELSE @,
                                 !.queries = @ + 1]
       \/ atask' = [atask EXCEPT !.pc = "done", !.result = Err("Postgres"),
                                 !.queries = @ + 1]
    /\ UNCHANGED <<notAuto, cache, hitsdb, alast>>

\* redis.rs 148: exec_autocomp(c, &phrase).await?
AutoExec ==
    /\ atask.pc = "exec"
    /\ \/ atask' = [atask EXCEPT !.pc = "set_ex", !.hits = hitsdb[atask.phrase],
                                 !.queries = @ + 1]
       \/ atask' = [atask EXCEPT !.pc = "done", !.result = Err("Postgres"),
                                 !.queries = @ + 1]
    /\ UNCHANGED <<notAuto, cache, hitsdb, alast>>

\* redis.rs 149-150: set_ex(pool, &key, &hits, T::seconds_expiry()).await?; Ok(hits)
AutoSetEx ==
    /\ atask.pc = "set_ex"
    /\ \/ /\ cache' = [cache EXCEPT ![autocomp_key(atask.phrase)] =
                          rediserde_set_ex(atask.hits, seconds_expiry)]
          /\ atask' = [atask EXCEPT !.pc = "done", !.result = Ok(atask.hits)]
          /\ alast' = [alast EXCEPT ![to_lowercase(atask.phrase)] =
                          [kind |-> "stored", phrase |-> atask.phrase,
                           hits |-> atask.hits, age |-> 0]]
       \/ /\ \E e \in RedisErrors :
                 atask' = [atask EXCEPT !.pc = "done", !.result = Err(e),
                                        !.cacheFailed = TRUE]
          /\ UNCHANGED <<cache, alast>>
    /\ UNCHANGED <<notAuto, hitsdb>>

\* the caller takes the result and is free for another call
AutoFinish ==
    /\ atask.pc = "done"
    /\ atask' = IdleAuto
    /\ UNCHANGED <<notAuto, cache, hitsdb, alast>>

\* a second passes: Redis expires what is due, and a stored list is in force
\* for seconds_expiry seconds
AutoTick ==
    /\ \E k \in DOMAIN cache : cache[k] # Nil /\ cache[k].expires
    /\ cache' = [k \in DOMAIN cache |-> Elapse(cache[k])]
    /\ alast' = [lp \in DOMAIN alast |->
                    IF alast[lp] = NoStored THEN NoStored
                    ELSE IF alast[lp].age + 1 >= seconds_expiry THEN NoStored
                    ELSE [alast[lp] EXCEPT !.age = @ + 1]]
    /\ UNCHANGED <<notAuto, hitsdb, atask>>

\* another writer leaves a payload under a key that does not parse
AutoForeignWrite(k) ==
    /\ cache[k] # redis_set(Malformed)
    /\ cache' = [cache EXCEPT ![k] = redis_set(Malformed)]
    /\ alast' = [lp \in DOMAIN alast |->
                    IF alast[lp] # NoStored /\ autocomp_key(alast[lp].phrase) = k
                    THEN NoStored ELSE alast[lp]]
    /\ UNCHANGED <<notAuto, hitsdb, atask>>

\* the searched table changes: the phrase now finds another list
AutoDbChange(phrase, hits) ==
    /\ hitsdb[phrase] # hits
    /\ hitsdb' = [hitsdb EXCEPT ![phrase] = hits]
    /\ UNCHANGED <<notAuto, cache, atask, alast>>

AutoInit ==
    /\ BorgAtRest
    /\ CocAtRest
    /\ StoreAtRest
    /\ ResAtRest
    /\ SanAtRest
    /\ WarmAtRest
    /\ cache = [k \in AutoKeys |-> Nil]
    /\ hitsdb \in [AutoPhrases -> HitLists]
    /\ atask = IdleAuto
    /\ alast = [lp \in {to_lowercase(p) : p \in AutoPhrases} |-> NoStored]

AutoNext ==
    \/ \E fn \in AutoFns, phrase \in AutoPhrases : AutoCall(fn, phrase)
    \/ AutoGet
    \/ AutoExec
    \/ AutoSetEx
    \/ AutoFinish
    \/ AutoTick
    \/ \E k \in AutoKeys : AutoForeignWrite(k)
    \/ \E phrase \in AutoPhrases, hits \in HitLists : AutoDbChange(phrase, hits)

SpecAutocomp == AutoInit /\ [][AutoNext]_vars

(***************************************************************************)
(* Claims about the dedup set, for constructions executed one at a time.   *)
(***************************************************************************)
BorgPastDedup(t) == btask[t].pc \in {"on_instantiation", "done"}

C2_ClearThenAdd ==
    \A t \in BorgTasks :
        (BorgPastDedup(t) /\ btask[t].dedup = "absent" /\ btask[t].added
            /\ btask[t].card > redis_pk_max_ct)
        => /\ btask[t].cleared
           /\ sets[BKeySet] = {btask[t].member}
           /\ Cardinality(sets[BKeySet]) = 1

C2_Witness ==
    \E t \in BorgTasks :
        /\ BorgPastDedup(t)
        /\ btask[t].added
        /\ btask[t].card > redis_pk_max_ct
        /\ sets[BKeySet] = {btask[t].member}

\* C3: with constructions executed one at a time the dedup set never holds
\* more than redis_pk_max_ct + 1 members.
C3_SetBounded == Cardinality(sets[BKeySet]) <= redis_pk_max_ct + 1

\* the set is one member over the maximum
C3_Witness == Cardinality(sets[BKeySet]) = redis_pk_max_ct + 1

(***************************************************************************)
(* Claims about the cache-aside lookup.                                    *)
(***************************************************************************)
CocCached == ctask.pc # "idle" /\ ctask.fn \in {"cached_or_cache", "cached_or_cache_f"}

\* the last lookup stored a value for the params of this one, and the entry
\* has been in the cache ever since
CocAfterStore ==
    /\ CocCached
    /\ ~ctask.stored
    /\ last.kind = "stored"
    /\ last.params = ctask.params

\* C4: a lookup that misses the cache runs the query once and, when a row is
\* found, stores the value under the key with expiry seconds_expiry and
\* returns it; a following lookup with the same parameters, the entry still
\* cached, returns that value and runs no query.
C4_CacheAside ==
    /\ last.kind = "stored" =>
          cache[redis_key(last.params)] =
              [payload |-> to_string(last.val), expires |-> TRUE,
               ttl |-> seconds_expiry - last.age]
    /\ (CocCached /\ ctask.pc \in {"ret", "done"} /\ ctask.miss /\ ctask.opt.kind = "Ok")
          => /\ ctask.queries = 1
             /\ ctask.opt.val.some <=> ctask.stored
    /\ (CocCached /\ ctask.stored)
          => /\ ctask.rows # <<>>
             /\ ctask.opt = Ok(Some(from_row(ctask.rows[1])))
    /\ CocAfterStore
          => /\ ctask.pc \in {"get", "ret", "done"}
             /\ ctask.queries = 0
             /\ (ctask.pc # "get" /\ ctask.opt.kind = "Ok")
                    => ctask.opt = Ok(Some(last.val))

\* a second lookup returned the cached value although the row is gone
C4_Witness ==
    /\ CocAfterStore
    /\ ctask.pc = "done"
    /\ ctask.fn = "cached_or_cache"
    /\ ctask.result = Ok(Some(last.val))
    /\ db[ctask.params] = <<>>

\* C5: a lookup that misses the cache and finds no row returns None and
\* writes nothing to the cache, so the next lookup of the same parameters
\* queries the durable store again and finds a row inserted meanwhile.
C5_AbsenceNotCached ==
    /\ last.kind = "absent" => cache[redis_key(last.params)] = Nil
    /\ (CocCached /\ ctask.pc \in {"ret", "done"} /\ ctask.miss /\ ctask.opt = Ok(None))
          => /\ ~ctask.stored
             /\ ctask.queries = 1
             /\ ctask.rows = <<>>
    /\ (CocCached /\ last.kind = "absent" /\ last.params = ctask.params
            /\ ctask.pc \in {"set_ex", "ret", "done"})
          => /\ ~ctask.miss => (ctask.opt.kind = "Err" /\ ctask.opt.err \in RedisErrors)
             /\ ctask.miss => ctask.queries = 1
             /\ ctask.pc = "set_ex" =>
                    (ctask.rows # <<>> /\ ctask.val = from_row(ctask.rows[1]))

\* after a lookup that found no row, the next one queried again and found one
C5_Witness ==
    /\ CocCached
    /\ last.kind = "absent"
    /\ last.params = ctask.params
    /\ ctask.pc = "set_ex"
    /\ ctask.queries = 1

\* the cache store failed during a lookup of a key whose value is cached
CocFailedAfterStore == CocAfterStore /\ ctask.cacheFailed

\* C6 as stated: a lookup during which the cache store fails still returns
\* the value cached before, with no query.
C6_Original ==
    (CocFailedAfterStore /\ ctask.pc \in {"ret", "done"})
        => (ctask.opt = Ok(Some(last.val)) /\ ctask.queries = 0)

\* C6 amended: a lookup during which the cache store fails returns the
\* cache-store error, not the value; it runs no query and leaves the cached
\* entry in place.
C6_FailurePropagates ==
    CocFailedAfterStore
        => /\ ctask.pc \in {"ret", "done"}
           /\ ctask.opt.kind = "Err"
           /\ ctask.opt.err \in RedisErrors
           /\ ctask.queries = 0
           /\ cache[redis_key(ctask.params)] # Nil
           /\ cache[redis_key(ctask.params)].payload = to_string(last.val)

C6_Witness ==
    /\ CocFailedAfterStore
    /\ ctask.pc = "done"
    /\ ctask.fn = "cached_or_cache"
    /\ ctask.result.kind = "Err"

\* C7: the forcing lookups cached_or_cache_f, get_one and get_by_pk return the
\* value whenever the optional lookup yields Some, and a MissingRow error
\* whenever it yields None.
C7_ForcedMiss ==
    ctask.pc = "done" =>
        /\ ctask.fn = "cached_or_cache_f" =>
              /\ (ctask.opt.kind = "Ok" /\ ctask.opt.val.some)
                    => ctask.result = Ok(ctask.opt.val.val)
              /\ (ctask.opt.kind = "Ok" /\ ~ctask.opt.val.some)
                    => ctask.result = Err("MissingRow")
        /\ (ctask.fn \in {"get_one", "get_by_pk"} /\ ctask.opt.kind = "Ok") =>
              LET o == get_opt(ctask.opt) IN
              /\ o.val.some => ctask.result = Ok(o.val.val)
              /\ ~o.val.some => ctask.result = Err("MissingRow")

\* each forcing lookup has reported a missing row
C7_Witness ==
    /\ ctask.pc = "done"
    /\ ctask.fn = "cached_or_cache_f"
    /\ ctask.miss
    /\ ctask.result = Err("MissingRow")

(***************************************************************************)
(* Claims about the cache store.                                           *)
(***************************************************************************)
\* C8: a get that follows a del of the key returns None, not an error; a get
\* that follows a set, or a set_ex within its expiry, returns the value last
\* stored.
C8_RoundTrip ==
    (got # NoGot /\ got.fn = "get" /\ ~got.failed) =>
        /\ got.after.kind = "del" => got.result = Ok(None)
        /\ got.after.kind = "set" => got.result = Ok(Some(got.after.val))

\* a value replaced an earlier one and was read back
C8_Witness ==
    /\ got # NoGot
    /\ got.fn = "get"
    /\ got.after.kind = "set"
    /\ got.result = Ok(Some("v2"))

(***************************************************************************)
(* Claims about get_string_id.                                             *)
(***************************************************************************)
\* how often the event e is in the trace tr
Count(tr, e) == Cardinality({i \in 1..Len(tr) : tr[i] = e})

\* the tasks whose insert of the name n went through
Inserters(n) ==
    {t \in ResTasks : /\ rtask[t].name = n
                      /\ Count(rtask[t].trace, "insert:row")
                           + Count(rtask[t].trace, "insert:norow") > 0}

\* C9: while no row is deleted, callers racing on a name that is not stored
\* make at most one insert of it that goes through, all of them that are
\* given an identifier are given the same one, and the caller whose insert
\* is refused as a duplicate makes exactly one more select, which, when it
\* succeeds, finds the row and returns its identifier.
C9_SameIdentifier ==
    deletes = 0 =>
        /\ \A n \in Names : Cardinality(Inserters(n)) <= 1
        /\ \A t, u \in ResTasks :
              ( /\ rtask[t].pc = "done" /\ rtask[u].pc = "done"
                /\ rtask[t].name = rtask[u].name
                /\ rtask[t].result.kind = "Ok" /\ rtask[u].result.kind = "Ok" )
              => rtask[t].result = rtask[u].result
        /\ \A t \in ResTasks :
              Count(rtask[t].trace, "insert:dup") > 0 =>
                  /\ Count(rtask[t].trace, "insert:dup") = 1
                  /\ Count(rtask[t].trace, "select:none") = 1
                  /\ rtask[t].pc = "done" =>
                        \/ /\ rtask[t].trace =
                                <<"select:none", "insert:dup", "sleep", "select:row">>
                           /\ rtask[t].result = Ok(table[rtask[t].name][1])
                        \/ /\ rtask[t].trace =
                                <<"select:none", "insert:dup", "sleep", "select:err">>
                           /\ rtask[t].result.kind = "Err"

\* two callers raced on a name: one inserted it, the other was refused, slept,
\* selected again, and both hold the same identifier
C9_Witness ==
    /\ deletes = 0
    /\ \E t, u \in ResTasks :
          /\ t # u
          /\ rtask[t].name = rtask[u].name
          /\ rtask[t].trace = <<"select:none", "insert:row">>
          /\ rtask[u].trace = <<"select:none", "insert:dup", "sleep", "select:row">>
          /\ rtask[t].pc = "done" /\ rtask[u].pc = "done"
          /\ rtask[t].result.kind = "Ok"
          /\ rtask[u].result = rtask[t].result

\* C10: an insert refused as a duplicate is followed by the sleep and then by
\* the select of a new pass, and the task sleeps for no other reason; an
\* insert that fails in any other way is the last thing the call does, and
\* the call returns that error.
C10_RetryOnlyOnDuplicate ==
    \A t \in ResTasks :
        LET tr == rtask[t].trace
            n == Len(tr)
        IN  /\ \A i \in 1..n :
                  /\ tr[i] = "insert:dup" =>
                        IF i = n THEN rtask[t].pc = "sleep" ELSE tr[i + 1] = "sleep"
                  /\ tr[i] = "sleep" =>
                        IF i = n THEN rtask[t].pc = "select"
                        ELSE tr[i + 1] \in {"select:row", "select:none", "select:err"}
                  /\ tr[i] = "insert:err" =>
                        /\ i = n
                        /\ rtask[t].pc = "done"
                        /\ rtask[t].result \in {PgErr(e) : e \in OtherErrorTexts}
            /\ rtask[t].pc = "sleep" => (n > 0 /\ tr[n] = "insert:dup")

\* one call was refused as a duplicate, slept, selected again, and then had
\* its second insert fail in another way and returned that error
C10_Witness ==
    \E t \in ResTasks :
        /\ rtask[t].trace =
              <<"select:none", "insert:dup", "sleep", "select:none", "insert:err">>
        /\ rtask[t].pc = "done"
        /\ rtask[t].result \in {PgErr(e) : e \in OtherErrorTexts}

\* C11: the delay before the retry suspends only the task that waits: while
\* a task sleeps, every other task polled on the same thread whose call has a
\* statement to run can run it, and a task that has not called yet can call.
C11_DelayDoesNotBlock ==
    \A t, u \in ResTasks :
        (t # u /\ worker[t] = worker[u] /\ rtask[u].pc = "sleep") =>
            /\ rtask[t].pc = "idle" => ENABLED (\E n \in Names : ResCall(t, n))
            /\ rtask[t].pc = "select" => ENABLED ResSelect(t)
            /\ rtask[t].pc = "insert" => ENABLED ResInsert(t)

(***************************************************************************)
(* Claims about sanitize_tsquery.                                          *)
(***************************************************************************)
\* the call made was sanitize_tsquery(input, b) and it has returned
Sanitized(b) == san.pc = "done" /\ san.is_autocomp = b

\* C12: sanitize_tsquery(p, false) neither starts nor ends with one of the
\* operators & | !.
C12_NoOperatorAtEnds ==
    (Sanitized(FALSE) /\ san.out # <<>>) =>
        /\ ~IsOp(san.out[1])
        /\ ~IsOp(san.out[Len(san.out)])

\* C13: sanitize_tsquery(p, false) is made of letters, digits, spaces and the
\* operators & | ! only, and no operator in it is followed by the same operator.
C13_AllowedCharsNoDoubles ==
    Sanitized(FALSE) =>
        /\ \A i \in 1..Len(san.out) :
              IsAlnum(san.out[i]) \/ san.out[i] = " " \/ IsOp(san.out[i])
        /\ \A i \in 1..(Len(san.out) - 1) :
              IsOp(san.out[i]) => san.out[i + 1] # san.out[i]

\* a phrase with a doubled operator after a token and a character outside the
\* allowed set has been sanitized to a result that is not empty
C13_Witness ==
    /\ Sanitized(FALSE)
    /\ san.out # <<>>
    /\ \E i \in 2..(Len(san.input) - 1) :
          /\ IsAlnum(san.input[i - 1])
          /\ IsOp(san.input[i])
          /\ san.input[i + 1] = san.input[i]
    /\ \E i \in 1..Len(san.input) : san.input[i] = "-"

\* p is alphanumeric tokens separated by whitespace runs
IsTokens(p) ==
    /\ p # <<>>
    /\ IsAlnum(p[1]) /\ IsAlnum(p[Len(p)])
    /\ \A i \in 1..Len(p) : IsAlnum(p[i]) \/ IsSpace(p[i])

\* the tokens of p joined by a single &
RECURSIVE JoinedByAnd(_)
JoinedByAnd(p) ==
    IF p = <<>> THEN <<>>
    ELSE IF IsSpace(p[1])
    THEN IF Len(p) > 1 /\ IsSpace(p[2]) THEN JoinedByAnd(Tail(p))
         ELSE <<"&">> \o JoinedByAnd(Tail(p))
    ELSE <<p[1]>> \o JoinedByAnd(Tail(p))

\* C14: for a phrase of alphanumeric tokens separated by whitespace runs,
\* sanitize_tsquery(p, true) is the tokens joined by a single & with nothing
\* else between them, followed by :*.
C14_TokensJoinedByAnd ==
    (Sanitized(TRUE) /\ IsTokens(san.input)) =>
        san.out = JoinedByAnd(san.input) \o <<":", "*">>

(***************************************************************************)
(* Claims about warm_the_cache.                                            *)
(***************************************************************************)
\* the sweep of the given depth has returned Ok
WarmDone(d) ==
    /\ wtask.pc = "done"
    /\ wtask.depth = d
    /\ wtask.result.kind = "Ok"

\* C15: a sweep of depth Char1 that returns Ok has made exactly 36 recache
\* calls: its k-th call is for the one-character phrase of the k-th symbol
\* of a-z, 0-9, and it makes no call from another loop.
C15_Depth1Calls ==
    (wtask.pc # "idle" /\ wtask.depth = "Char1") =>
        /\ {chars1[i] : i \in 1..Len(chars1)} = Lowercase \cup Digits
        /\ wtask.pc \in {"c1", "done"}
        /\ wtask.pc = "c1" => wtask.calls = wtask.i1 - 1
        /\ wtask.calls >= 1 =>
              /\ wtask.level = 1
              /\ wtask.phrase = <<chars1[wtask.calls]>>
        /\ wtask.calls <= 36
        /\ WarmDone("Char1") => wtask.calls = 36

\* a sweep of depth Char1 has returned Ok, its last call being for "9"
C15_Witness ==
    /\ WarmDone("Char1")
    /\ wtask.calls = 36
    /\ wtask.phrase = <<"9">>

\* C16: a sweep of depth Char2 that returns Ok has made exactly 36 + 36 * 43
\* recache calls.
C16_Depth2Calls == WarmDone("Char2") => wtask.calls = 36 + 36 * 43

\* the number of characters of the depth
DepthChars(d) == IF d = "Char1" THEN 1 ELSE IF d = "Char2" THEN 2 ELSE 3

\* C17: a call made from the loop over c2 is for the two-character phrase
\* c1c2, a call made from the loop over c3 is for the three-character phrase
\* c1c2c3, and no phrase is longer than the depth.
C17_ExtensionPhrases ==
    (wtask.pc # "idle" /\ wtask.calls >= 1) =>
        /\ wtask.level = 2 =>
              wtask.phrase = <<chars1[wtask.at[1]], chars23[wtask.at[2]]>>
        /\ wtask.level = 3 =>
              wtask.phrase = <<chars1[wtask.at[1]], chars23[wtask.at[2]],
                               chars23[wtask.at[3]]>>
        /\ Len(wtask.phrase) <= DepthChars(wtask.depth)

(***************************************************************************)
(* Claims about concurrent constructions.                                  *)
(***************************************************************************)
\* the call of task t has written its R value to the cache
BorgWrote(t) ==
    /\ btask[t].pc # "idle"
    /\ btask[t].failedAt # "set_ex_r"
    /\ \E i \in 1..Len(btask[t].trace) : btask[t].trace[i] = "set_ex_r"

\* the calls that have written the R key k
BorgWriters(k) == {t \in BorgPair : BorgWrote(t) /\ BKeyR(t) = k}

\* C18: when every construction on an R key has completed, at least one of
\* them has written the key, each writer wrote the value redis_value yields
\* for its inputs, and the entry written with the expiry is still there,
\* the entry holds that value, whichever writer was last.
C18_LastWriterWins ==
    \A k \in BorgKeys :
        ( /\ BorgWriters(k) # {}
          /\ \A t \in BorgPair :
                (btask[t].pc # "idle" /\ BKeyR(t) = k) => btask[t].pc = "done"
          /\ \A t \in BorgWriters(k) : btask[t].r = redis_value(btask[t].b, btask[t].o)
          /\ cache[k] # Nil
          /\ cache[k].expires )
        => \A t \in BorgWriters(k) :
              from_str(cache[k].payload) = Ok(redis_value(btask[t].b, btask[t].o))

\* two constructions have both missed the cache for one R key and both written
\* it, both have completed, and the entry holds the value
C18_Witness ==
    \E t, u \in BorgPair :
        /\ t # u
        /\ BorgWrote(t) /\ BorgWrote(u)
        /\ BKeyR(t) = BKeyR(u)
        /\ ~btask[t].hit /\ ~btask[u].hit
        /\ btask[t].pc = "done" /\ btask[u].pc = "done"
        /\ cache[BKeyR(t)] # Nil
        /\ from_str(cache[BKeyR(t)].payload) = Ok(redis_value(btask[t].b, btask[t].o))

\* C19: on_pk_sadd runs only in a construction whose membership check found
\* the identity absent, and the check, the hook and the set-add are separate
\* steps: two concurrent constructions with one new identity can both find it
\* absent and both run on_pk_sadd (the state C19_Witness describes).
C19_HookAfterAbsent ==
    \A t \in BorgPair :
        (btask[t].pc # "idle" /\ btask[t].ranHook) =>
            /\ btask[t].dedup = "absent"
            /\ \E i \in 1..(Len(btask[t].trace) - 1) :
                  /\ btask[t].trace[i] = "sismember"
                  /\ btask[t].trace[i + 1] = "on_pk_sadd"

\* two concurrent constructions with the same identity have both found it
\* absent and both run on_pk_sadd, with no clear of the set between them
C19_Witness ==
    \E t, u \in BorgPair :
        /\ t # u
        /\ btask[t].pc # "idle" /\ btask[u].pc # "idle"
        /\ btask[t].member = btask[u].member
        /\ btask[t].dedup = "absent" /\ btask[u].dedup = "absent"
        /\ btask[t].ranHook /\ btask[u].ranHook
        /\ ~btask[t].cleared /\ ~btask[u].cleared
        /\ btask[t].added /\ btask[u].added

\* C20: a call whose on_invocation fails is over at once: it returns the
\* hook's error, on_invocation is its only step, and it has read no R value,
\* checked no membership, run no other hook and changed no set.
C20_InvocationFailure ==
    \A t \in BorgTasks :
        (btask[t].pc # "idle" /\ btask[t].failedAt = "on_invocation") =>
            /\ btask[t].pc = "done"
            /\ btask[t].result = Err("Hook")
            /\ btask[t].trace = <<"on_invocation">>
            /\ btask[t].r = "" /\ ~btask[t].hit
            /\ btask[t].dedup = "unchecked"
            /\ ~btask[t].ranHook /\ ~btask[t].cleared /\ ~btask[t].added

\* a call has failed in on_invocation while an R value of an earlier call is
\* in the cache
C20_Witness ==
    \E t \in BorgTasks :
        /\ btask[t].pc = "done"
        /\ btask[t].failedAt = "on_invocation"
        /\ cache[BKeyR(t)] # Nil
        /\ cache[BKeyR(t)].expires

(***************************************************************************)
(* Claims about the steps of one construction.                             *)
(***************************************************************************)
\* the steps of borg after the R value is in hand
AfterR == {"generate", "sismember", "on_pk_sadd", "scard", "del", "sadd", "on_instantiation"}

\* C21: a step of borg that fails ends the call with an error, that step
\* being its last; the failing step changes neither the cache nor the dedup
\* set, so what the call wrote before stays; and a call that is over takes
\* no further step.
C21_FailureEndsNoRollback ==
    /\ [](\A t \in BorgTasks :
            (btask[t].pc # "idle" /\ btask[t].failedAt # "") =>
                /\ btask[t].pc = "done"
                /\ btask[t].result.kind = "Err"
                /\ btask[t].trace[Len(btask[t].trace)] = btask[t].failedAt)
    /\ [][\A t \in BorgTasks :
            /\ ( /\ btask[t].pc \notin {"idle", "done"}
                 /\ btask'[t].pc = "done"
                 /\ btask'[t].result.kind = "Err" )
               => (cache' = cache /\ sets' = sets)
            /\ btask[t].pc = "done" => btask'[t] \in {btask[t], IdleTask}]_vars

\* a call missed the cache, wrote its R value, then failed in a later step,
\* and the R value is still in the cache
C21_Witness ==
    \E t \in BorgTasks :
        /\ btask[t].pc = "done"
        /\ btask[t].failedAt \in AfterR
        /\ BorgWrote(t)
        /\ cache[BKeyR(t)] # Nil
        /\ from_str(cache[BKeyR(t)].payload) = Ok(btask[t].r)

\* C22: the R value of a call is kept under the key "r_" + prefix + "_" +
\* suffix(B, O) and the dedup set under the key "pks_" + prefix.
C22_KeyNames ==
    \A t \in BorgTasks :
        btask[t].pc # "idle" =>
            /\ BKeyR(t) = "r_" \o redis_prefix \o "_"
                               \o redis_suffix_r(btask[t].b, btask[t].o)
            /\ BKeyR(t) \in DOMAIN cache
            /\ BKeySet = "pks_" \o redis_prefix
            /\ BKeySet \in DOMAIN sets

\* the steps of a call that returns Ok, given what its reads found
OkTrace(task) ==
    <<"on_invocation", "get_r">>
    \o (IF task.hit THEN <<>> ELSE <<"redis_value", "set_ex_r">>)
    \o <<"generate", "instantiate", "sismember">>
    \o (IF task.dedup = "present" THEN <<>>
        ELSE <<"on_pk_sadd", "scard">>
             \o (IF task.cleared THEN <<"del">> ELSE <<>>)
             \o <<"sadd">>)
    \o <<"on_instantiation">>

\* C23: a call that returns Ok has run on_invocation, the cache read (on a
\* miss redis_value, then set_ex), generate, instantiate, the membership
\* check (when absent on_pk_sadd, the cardinality check, the clear if the set
\* was too large, the set-add) and on_instantiation, in this order, each once.
C23_StepOrder ==
    \A t \in BorgTasks :
        (btask[t].pc = "done" /\ btask[t].result.kind = "Ok") =>
            /\ btask[t].trace = OkTrace(btask[t])
            /\ btask[t].dedup \in {"present", "absent"}
            /\ btask[t].ranHook = (btask[t].dedup = "absent")
            /\ btask[t].added = (btask[t].dedup = "absent")

\* a call has returned Ok after a miss, a first sight and a clear of the set
C23_Witness ==
    \E t \in BorgTasks :
        /\ btask[t].pc = "done"
        /\ btask[t].result.kind = "Ok"
        /\ btask[t].trace =
              <<"on_invocation", "get_r", "redis_value", "set_ex_r", "generate",
                "instantiate", "sismember", "on_pk_sadd", "scard", "del", "sadd",
                "on_instantiation">>

\* how often the step e is in the trace tr of a call
Steps(tr, e) == Cardinality({i \in 1..Len(tr) : tr[i] = e})

\* C24: a call whose cache read returns a value takes R from the entry,
\* calls redis_value never and writes no R key; a call whose cache read
\* returns none calls redis_value once and stores the result under the R key
\* with the expiry redis_expiry_r before generate; either way generate is
\* called once, with that R.
C24_ROnceFromCacheOrValue ==
    /\ [](\A t \in BorgTasks :
            (btask[t].pc # "idle" /\ Steps(btask[t].trace, "get_r") > 0
                                 /\ btask[t].failedAt # "get_r") =>
                /\ Steps(btask[t].trace, "redis_value") <= 1
                /\ Steps(btask[t].trace, "generate") <= 1
                /\ btask[t].hit =>
                      /\ Steps(btask[t].trace, "redis_value") = 0
                      /\ Steps(btask[t].trace, "set_ex_r") = 0
                /\ Steps(btask[t].trace, "generate") = 1 =>
                      Steps(btask[t].trace, "redis_value") = (IF btask[t].hit THEN 0 ELSE 1)
                /\ (Steps(btask[t].trace, "generate") = 1 /\ ~btask[t].hit) =>
                      \E i \in 1..Len(btask[t].trace) :
                          /\ btask[t].trace[i] = "redis_value"
                          /\ btask[t].trace[i + 1] = "set_ex_r"
                          /\ btask[t].trace[i + 2] = "generate"
                /\ (btask[t].pc = "done" /\ btask[t].result.kind = "Ok") =>
                      btask[t].result.val.g.r = btask[t].r)
    /\ [][\A t \in BorgTasks :
            /\ (btask[t].pc = "get_r" /\ btask'[t].pc = "generate") =>
                  /\ cache[BKeyR(t)] # Nil
                  /\ from_str(cache[BKeyR(t)].payload) = Ok(btask'[t].r)
                  /\ cache' = cache
            /\ (btask[t].pc = "get_r" /\ btask'[t].pc = "redis_value") =>
                  cache[BKeyR(t)] = Nil
            /\ (btask[t].pc = "redis_value" /\ btask'[t].pc = "set_ex_r") =>
                  btask'[t].r = redis_value(btask[t].b, btask[t].o)
            /\ (btask[t].pc = "set_ex_r" /\ btask'[t].pc = "generate") =>
                  /\ cache'[BKeyR(t)] = redis_set_ex(to_string(btask[t].r), redis_expiry_r)
                  /\ btask'[t].r = btask[t].r]_vars

\* a call has returned Ok with the R value a previous call had cached
C24_Witness ==
    \E t \in BorgTasks :
        /\ btask[t].pc = "done"
        /\ btask[t].result.kind = "Ok"
        /\ btask[t].hit
        /\ btask[t].result.val.g.r = btask[t].r
        /\ cache[BKeyR(t)] # Nil
        /\ from_str(cache[BKeyR(t)].payload) = Ok(btask[t].r)

(***************************************************************************)
(* Claims about the statements of get_string_id.                           *)
(***************************************************************************)
InsertEvents == {"insert:row", "insert:norow", "insert:dup", "insert:err"}

\* C25: a select that returns a row is the last statement of the call, which
\* returns the identifier of that row; every insert of a call comes straight
\* after a select of that call that returned no row.
C25_InsertOnlyAfterEmptySelect ==
    /\ [](\A t \in ResTasks :
            \A i \in 1..Len(rtask[t].trace) :
                /\ rtask[t].trace[i] = "select:row" =>
                      /\ i = Len(rtask[t].trace)
                      /\ rtask[t].pc = "done"
                      /\ rtask[t].result.kind = "Ok"
                /\ rtask[t].trace[i] \in InsertEvents =>
                      (i > 1 /\ rtask[t].trace[i - 1] = "select:none"))
    /\ [][\A t \in ResTasks :
            /\ (rtask[t].pc = "select" /\ rtask'[t].pc = "done"
                                       /\ rtask'[t].result.kind = "Ok") =>
                  /\ table[rtask[t].name] # <<>>
                  /\ rtask'[t].result = Ok(table[rtask[t].name][1])
                  /\ table' = table
            /\ (rtask[t].pc = "select" /\ rtask'[t].pc = "insert") =>
                  table[rtask[t].name] = <<>>]_vars

\* a call for a name that is stored has returned its identifier after one
\* select
C25_Witness ==
    \E t \in ResTasks :
        /\ rtask[t].pc = "done"
        /\ rtask[t].trace = <<"select:row">>
        /\ table[rtask[t].name] # <<>>
        /\ rtask[t].result = Ok(table[rtask[t].name][1])

\* C26: an insert that succeeds and returns no row is the last statement of
\* the call, and the call returns the MissingRow error: no identifier, no
\* retry, and not the error of a failed statement.
C26_MissingRow ==
    \A t \in ResTasks :
        \A i \in 1..Len(rtask[t].trace) :
            rtask[t].trace[i] = "insert:norow" =>
                /\ i = Len(rtask[t].trace)
                /\ rtask[t].pc = "done"
                /\ rtask[t].result.kind = "Err"
                /\ rtask[t].result.err = "MissingRow"
                /\ rtask[t].result \notin {PgErr(e) : e \in OtherErrorTexts \cup {DupKeyText}}

\* an insert statement that returns nothing has stored the name, and the
\* call has returned MissingRow
C26_Witness ==
    \E t \in ResTasks :
        /\ ~returning
        /\ rtask[t].pc = "done"
        /\ rtask[t].trace = <<"select:none", "insert:norow">>
        /\ rtask[t].result = MissingRow
        /\ table[rtask[t].name] # <<>>

(***************************************************************************)
(* Claims about the autocomplete cache and about unreadable entries.       *)
(***************************************************************************)
\* the key holds a payload serde_json cannot read
Unreadable(entry) == entry # Nil /\ ~IsJson(entry.payload)

C28_CaseFoldedHit ==
    [][(/\ atask.pc = "get"
        /\ atask' # atask
        /\ ~atask'.cacheFailed
        /\ alast[to_lowercase(atask.phrase)] # NoStored) =>
            /\ atask'.pc = "done"
            /\ atask'.hit
            /\ atask'.result = Ok(alast[to_lowercase(atask.phrase)].hits)
            /\ atask'.queries = 0]_vars

\* a lookup of p has returned the list stored for a q that differs from p in
\* case, a list the table would not give for p
C28_Witness ==
    /\ atask.pc = "done"
    /\ atask.fn = "cached_autocomp"
    /\ atask.hit
    /\ alast[to_lowercase(atask.phrase)] # NoStored
    /\ alast[to_lowercase(atask.phrase)].phrase # atask.phrase
    /\ atask.result = Ok(alast[to_lowercase(atask.phrase)].hits)
    /\ hitsdb[atask.phrase] # atask.result.val

\* C29: recache never reads the cache and makes exactly one query, whatever
\* the key holds; the list it stores is the one the query returned, and when
\* it returns Ok the key holds exactly the returned list with a full expiry.
C29_RecacheOverwrites ==
    /\ []((atask.pc # "idle" /\ atask.fn = "recache") =>
              /\ atask.pc # "get"
              /\ ~atask.hit
              /\ (atask.pc = "done" => atask.queries = 1))
    /\ [][/\ (atask.pc = "exec" /\ atask'.pc = "set_ex") =>
                atask'.hits = hitsdb[atask.phrase]
          /\ (atask.pc = "set_ex" /\ atask'.pc = "done"
                  /\ atask'.result.kind = "Ok") =>
                /\ atask'.result = Ok(atask.hits)
                /\ cache' = [cache EXCEPT ![autocomp_key(atask.phrase)] =
                                redis_set_ex(to_string(atask'.result.val), seconds_expiry)]
                /\ rediserde_get(cache'[autocomp_key(atask.phrase)])
                      = Ok(Some(atask'.result.val))]_vars

\* recache was called while the key held another list, and has replaced it
C29_Witness ==
    /\ atask.pc = "done"
    /\ atask.fn = "recache"
    /\ atask.result.kind = "Ok"
    /\ atask.before # Nil
    /\ IsJson(atask.before.payload)
    /\ atask.before.payload # to_string(atask.result.val)
    /\ cache[autocomp_key(atask.phrase)]
          = redis_set_ex(to_string(atask.result.val), seconds_expiry)

(***************************************************************************)
(* The number of calls of the deepest sweep.                               *)
(***************************************************************************)
CountDone(d) ==
    /\ wcount.pc = "done"
    /\ wcount.depth = d
    /\ wcount.result.kind = "Ok"

OneWord(p) == \A i \in 1..Len(p) : ~IsSpace(p[i]) /\ ~IsOp(p[i])

\* C31: for a phrase with no whitespace and no operator character,
\* sanitize_tsquery(p, false) is p without its characters outside the allowed
\* set: one token, with no space and no operator in it.
C31_StripDeletes ==
    (Sanitized(FALSE) /\ OneWord(san.input)) =>
        /\ san.out = SelectSeq(san.input, IsAlnum)
        /\ \A i \in 1..Len(san.out) : IsAlnum(san.out[i])

\* the characters a result is made of
OutChars == Lowercase \cup Uppercase \cup Digits \cup {" ", "&", "|", "!", ":", "*"}

\* C32: sanitize_tsquery has a result for every phrase and either flag, the
\* result with the flag set is the result without it followed by :*, and the
\* empty phrase gives the empty string, or :* with the flag set.
C32_TotalAndSuffix ==
    /\ san.pc = "phrase" =>
          \A b \in BOOLEAN : sanitize_tsquery(san.input, b) \in Seq(OutChars)
    /\ Sanitized(TRUE) =>
          san.out = sanitize_tsquery(san.input, FALSE) \o <<":", "*">>
    /\ Sanitized(FALSE) =>
          /\ san.out = sanitize_tsquery(san.input, FALSE)
          /\ san.out \o <<":", "*">> = sanitize_tsquery(san.input, TRUE)
    /\ (san.pc = "done" /\ san.input = <<>>) =>
          san.out = IF san.is_autocomp THEN <<":", "*">> ELSE <<>>

\* a phrase that ends with an operator has been sanitized with the flag set:
\* the result is the one without the flag, then :*
C32_Witness ==
    /\ Sanitized(TRUE)
    /\ san.input # <<>>
    /\ IsOp(san.input[Len(san.input)])
    /\ Len(san.out) > 2
    /\ san.out = sanitize_tsquery(san.input, FALSE) \o <<":", "*">>

(***************************************************************************)
(* More claims about the dedup set of borg.                                *)
(***************************************************************************)
\* C33: while the constructions of BorgPair run concurrently, in any order
\* of their steps, the dedup set of the type never holds more than
\* redis_pk_max_ct() + N members, N the number of constructions.
C33_BoundedGrowth ==
    Cardinality(sets[BKeySet]) <= redis_pk_max_ct + Cardinality(BorgPair)

\* both constructions read a cardinality within the maximum, neither cleared
\* the set, and their two adds have taken it to redis_pk_max_ct + N
C33_Witness ==
    /\ \A t \in BorgPair :
          /\ btask[t].pc # "idle"
          /\ btask[t].added
          /\ ~btask[t].cleared
          /\ ~PkSetTooLarge(btask[t].card)
    /\ Cardinality(sets[BKeySet]) = redis_pk_max_ct + Cardinality(BorgPair)

\* the last construction that failed past the membership check failed at the
\* given step with the identity of task t, and none has added it since
FailedBefore(t, step) == hist.lastFail = [at |-> step, member |-> btask[t].member]

\* task t takes its SISMEMBER step and the command succeeds
Checks(t) == btask[t].pc = "sismember" /\ btask'[t].pc \notin {"sismember", "done"}

\* C34: a construction whose on_pk_sadd fails ends there: its identity is not
\* in the dedup set and the set is as it was; until a construction adds that
\* identity it stays absent, and a construction with it that checks the set
\* goes on to on_pk_sadd.
C34_HookFailureLeavesAbsent ==
    /\ [](hist.lastFail.at = "on_pk_sadd" => hist.lastFail.member \notin sets[BKeySet])
    /\ [][\A t \in BorgTasks :
            /\ (btask[t].pc = "on_pk_sadd" /\ btask'[t].pc = "done") =>
                  /\ btask'[t].result.kind = "Err"
                  /\ sets' = sets
                  /\ btask[t].member \notin sets'[BKeySet]
                  /\ ~btask'[t].added /\ ~btask'[t].cleared
            /\ (Checks(t) /\ FailedBefore(t, "on_pk_sadd")) =>
                  /\ btask'[t].pc = "on_pk_sadd"
                  /\ btask'[t].dedup = "absent"]_vars

\* after a construction whose on_pk_sadd failed, a construction with the
\* same identity has found it absent and run on_pk_sadd
C34_Witness ==
    \E t \in BorgTasks :
        /\ btask[t].pc = "scard"
        /\ btask[t].dedup = "absent"
        /\ btask[t].ranHook
        /\ FailedBefore(t, "on_pk_sadd")

\* C35: a construction whose on_instantiation fails returns the error and no
\* object, with its identity in the dedup set (added by this construction,
\* after its on_pk_sadd, if it found it absent); until the set is cleared the
\* identity stays, and a construction with it that checks the set goes
\* straight to on_instantiation without on_pk_sadd.
C35_InstantiationFailureKeepsIdentity ==
    /\ [](hist.lastFail.at = "on_instantiation" => hist.lastFail.member \in sets[BKeySet])
    /\ [][\A t \in BorgTasks :
            /\ (btask[t].pc = "on_instantiation" /\ btask'[t].pc = "done"
                   /\ btask'[t].failedAt = "on_instantiation") =>
                  /\ btask'[t].result.kind = "Err"
                  /\ sets' = sets
                  /\ btask[t].member \in sets'[BKeySet]
                  /\ btask[t].dedup = "absent" => (btask[t].ranHook /\ btask[t].added)
            /\ (Checks(t) /\ FailedBefore(t, "on_instantiation")) =>
                  /\ btask'[t].pc = "on_instantiation"
                  /\ btask'[t].dedup = "present"
                  /\ ~btask'[t].ranHook]_vars

\* after a construction that found its identity absent and failed in
\* on_instantiation, a construction with the same identity has found it
\* present and has run no on_pk_sadd
C35_Witness ==
    \E t \in BorgTasks :
        /\ btask[t].pc = "on_instantiation"
        /\ btask[t].dedup = "present"
        /\ ~btask[t].ranHook
        /\ FailedBefore(t, "on_instantiation")
        /\ btask[t].member \in hist.hooked

\* C36: an identity the last clear removed is not in the set until a
\* construction adds it again, and a construction with it that checks the
\* set goes on to on_pk_sadd; and on_pk_sadd runs at most once for an
\* identity between two clears.
C36_NewAfterClear ==
    /\ [](\A m \in hist.preClear : m \notin sets[BKeySet] => firstSight[m] = 0)
    /\ [][\A t \in BorgTasks :
            /\ (Checks(t) /\ btask[t].member \in hist.preClear
                   /\ btask[t].member \notin sets[BKeySet]) =>
                  btask'[t].pc = "on_pk_sadd"
            /\ (btask[t].pc = "on_pk_sadd" /\ btask'[t].ranHook) =>
                  btask[t].member \notin hist.hooked]_vars

\* the statements of the call of a task that came after its last sleep
AfterRetry(tr) ==
    IF Count(tr, "sleep") = 0 THEN <<>>
    ELSE LET i == CHOOSE k \in 1..Len(tr) :
                      tr[k] = "sleep" /\ \A j \in (k + 1)..Len(tr) : tr[j] # "sleep"
         IN SubSeq(tr, i + 1, Len(tr))

\* C37: while no row has been deleted a call makes at most four statements
\* and sleeps at most once, every step of a call is one more statement, the
\* select of the retry does not come back empty, and when it returns a row
\* the call ends with the identifier stored for the name. Each further retry
\* of a call needs a further delete.
C37_OneRetryWithoutDeletes ==
    /\ [](\A t \in ResTasks :
            /\ Count(rtask[t].trace, "sleep") <= deletes + 1
            /\ deletes = 0 => Len(rtask[t].trace) <= 4
            /\ (deletes = 0 /\ Count(rtask[t].trace, "sleep") = 1) =>
                  /\ AfterRetry(rtask[t].trace) \in
                         {<<>>, <<"select:row">>, <<"select:err">>}
                  /\ rtask[t].pc \in {"sleep", "select", "done"}
                  /\ AfterRetry(rtask[t].trace) = <<"select:row">> =>
                         /\ rtask[t].pc = "done"
                         /\ table[rtask[t].name] # <<>>
                         /\ rtask[t].result = Ok(table[rtask[t].name][1]))
    /\ [][\A t \in ResTasks :
            (rtask[t].pc \in {"select", "insert", "sleep"} /\ rtask'[t] # rtask[t]) =>
                /\ Len(rtask'[t].trace) = Len(rtask[t].trace) + 1
                /\ rtask'[t].pc # "idle"]_vars

\* with every task polled, a call that has started ends unless a row is
\* deleted
ResTerminates ==
    \A t \in ResTasks :
        (rtask[t].pc \in {"select", "insert", "sleep"} /\ deletes = 0)
            ~> (rtask[t].pc = "done" \/ deletes > 0)

\* with no row deleted, a call has lost the race for its name, retried once
\* and returned the identifier of the row that won
C37_Witness ==
    \E t \in ResTasks :
        /\ deletes = 0
        /\ rtask[t].pc = "done"
        /\ rtask[t].trace = <<"select:none", "insert:dup", "sleep", "select:row">>
        /\ table[rtask[t].name] # <<>>
        /\ rtask[t].result = Ok(table[rtask[t].name][1])

(***************************************************************************)
(* The autocomplete cache and a phrase that finds nothing.                 *)
(***************************************************************************)
\* the list stored for the phrase is in force and is the empty list
EmptyInForce(phrase) ==
    /\ alast[to_lowercase(phrase)] # NoStored
    /\ alast[to_lowercase(phrase)].hits = "[]"

\* C38: a query of cached_autocomp or recache that finds nothing is followed
\* by the cache write like any other, and the write stores the empty list
\* under the key with the full expiry; while that list is in force the key
\* holds it, and a lookup of the phrase that reaches Redis is a hit that
\* returns the empty list and makes no query, whatever the table now holds
\* for the phrase.
C38_EmptyListCached ==
    /\ [](\A p \in AutoPhrases : EmptyInForce(p) =>
              rediserde_get(cache[autocomp_key(p)]) = Ok(Some("[]")))
    /\ [][/\ (atask.pc = "exec" /\ atask' # atask /\ atask'.result.kind # "Err"
                  /\ hitsdb[atask.phrase] = "[]") =>
                /\ atask'.pc = "set_ex"
                /\ atask'.hits = "[]"
          /\ (atask.pc = "set_ex" /\ atask.hits = "[]" /\ atask'.result.kind = "Ok") =>
                /\ atask'.result = Ok("[]")
                /\ cache'[autocomp_key(atask.phrase)]
                      = rediserde_set_ex("[]", seconds_expiry)
                /\ EmptyInForce(atask.phrase)'
          /\ (atask.pc = "get" /\ atask' # atask /\ ~atask'.cacheFailed
                  /\ EmptyInForce(atask.phrase)) =>
                /\ atask'.pc = "done"
                /\ atask'.hit
                /\ atask'.result = Ok("[]")
                /\ atask'.queries = 0]_vars

\* a lookup has returned the stored empty list, without a query, for a phrase
\* that now finds a row in the table
C38_Witness ==
    /\ atask.pc = "done"
    /\ atask.fn = "cached_autocomp"
    /\ atask.hit
    /\ atask.queries = 0
    /\ atask.result = Ok("[]")
    /\ EmptyInForce(atask.phrase)
    /\ alast[to_lowercase(atask.phrase)].phrase = atask.phrase
    /\ hitsdb[atask.phrase] = "[hit]"

(***************************************************************************)
(* The cache-aside lookup whose cache write fails.                         *)
(***************************************************************************)
\* the lookup missed the cache, its query found a row, and the cache write
\* that followed has failed
CocWriteFailed ==
    /\ CocCached
    /\ ctask.miss
    /\ ctask.rows # <<>>
    /\ ctask.cacheFailed

\* C39: when the cache write of a lookup that missed and found a row fails,
\* the write changes nothing in the cache and the lookup returns the error of
\* the cache store, not the value found; it has made its one query and stored
\* nothing, and the key holds no entry afterwards unless another writer has
\* put one there, never the value found.
C39_WriteFailureReturnsError ==
    /\ [](CocWriteFailed =>
             /\ ctask.pc \in {"ret", "done"}
             /\ ctask.opt.kind = "Err"
             /\ ctask.opt.err \in RedisErrors
             /\ ctask.pc = "done" => ctask.result = ctask.opt
             /\ ~ctask.stored
             /\ ctask.queries = 1
             /\ \/ cache[redis_key(ctask.params)] = Nil
                \/ cache[redis_key(ctask.params)] = redis_set(Malformed))
    /\ [][(ctask.pc = "set_ex" /\ ctask'.cacheFailed) =>
             /\ CocWriteFailed'
             /\ ctask.val = from_row(ctask.rows[1])
             /\ ctask'.opt # Ok(Some(ctask.val))
             /\ cache' = cache]_vars

\* a lookup found the row, failed to cache it and returned the error; the row
\* is in the table and the key holds nothing
C39_Witness ==
    /\ CocWriteFailed
    /\ ctask.pc = "done"
    /\ ctask.fn = "cached_or_cache"
    /\ ctask.result.kind = "Err"
    /\ ctask.result.err \in RedisErrors
    /\ db[ctask.params] = ctask.rows
    /\ cache[redis_key(ctask.params)] = Nil

====
